---- MODULE Spec2Model ----
(***************************************************************************)
(* A model of extra::synch (synch.hpp): a value that owns its data and a   *)
(* mutex, the read/write guards it hands out, and the multi-resource       *)
(* wlock / try_wlock functions built on std::lock / std::try_lock.         *)
(*                                                                         *)
(* A resource name stands both for a synch object and for the mutex_       *)
(* member it embeds; a raw mutex is a resource without a protected value.  *)
(***************************************************************************)
EXTENDS Integers, Sequences, FiniteSets, TLC

\* ------------------------------------------------------------------ bounds
\* Protected values range over 0..MaxVal.
MaxVal == 1
\* Number of top-level operations a thread starts in one behaviour.
MaxOps == 2
\* Number of guard objects one lock acquisition passes through: the guard the
\* call returns and the guards move-constructed from it.
MaxObj == 2
\* Number of bits of the underlying type of an atomic_flags object.
FlagBits == 3

\* --------------------------------------------------------------- universe
Threads == {"t1", "t2"}
NoThread == "none"
Synchs == {"s1", "s2"}
RawMutexes == {"m"}
Res == Synchs \cup RawMutexes
\* A synch that copy or move construction brings into being.
New == {"n1"}
\* One synch<T, M> for each further primitive type M, named after the type.
\* The first two are the tests' mocks; the other two are primitives that
\* expose lock_shared / unlock_shared and the exclusive try and timed
\* operations, the one without try_lock_shared, the other with it, and
\* neither with the timed shared operations.  The last two expose a shared
\* operation without the ones below it: try_lock_shared without lock_shared
\* and unlock_shared, and the timed shared operations without
\* try_lock_shared.  timed_mutex has the exclusive operations, timed ones
\* included, and no shared operation, as std::timed_mutex.
Cells == {"basic_locable_mock", "locable_mock",
          "basic_shared_timed_mock", "shared_timed_excl_mock",
          "try_shared_only_mock", "shared_timed_no_try_mock",
          "timed_mutex"}
AllSynchs == Synchs \cup New \cup Cells
AllRes == Res \cup New \cup Cells
Null == "nullptr"
Val == 0..MaxVal
\* One extra::atomic_flags<Flags> object, and the values of its underlying
\* type.
AtomicFlags == {"flags"}
Words == 0..(2^FlagBits - 1)
\* One variable of a flags enum type, the output of the in-place functions.
EnumVars == {"output"}

VARIABLES
  mtx,     \* mtx[r]: state of the lock primitive r
  value,   \* value[s]: synch::value_ of synch s, atomic_flags::value_ of s
  guards,  \* guards[t]: the live guards / lock adapters in thread t's scope
  pc,      \* pc[t]: the call thread t is executing, and where it is in it
  ret,     \* ret[t]: what the last call of thread t returned
  ops,     \* ops[t]: number of operations thread t has started
  acc      \* the access to a protected value made by the last step, if any

vars == <<mtx, value, guards, pc, ret, ops, acc>>

\* ------------------------------------------------- lock primitive (type M)
\* synch_default_mutex; the tests pass std::mutex as the raw mutex.
MutexType(r) ==
  IF r \in Cells THEN r
  ELSE IF r \in AllSynchs THEN "shared_timed_mutex" ELSE "mutex"

\* The member functions each primitive type exposes.
Members(M) ==
  CASE M = "basic_locable_mock" -> {"lock", "unlock"}
    [] M = "locable_mock" -> {"lock", "unlock", "try_lock"}
    [] M = "mutex" -> {"lock", "unlock", "try_lock"}
    [] M = "timed_mutex" ->
         {"lock", "unlock", "try_lock", "try_lock_for", "try_lock_until"}
    [] M = "shared_mutex" ->
         {"lock", "unlock", "try_lock",
          "lock_shared", "unlock_shared", "try_lock_shared"}
    [] M = "basic_shared_timed_mock" ->
         {"lock", "unlock", "try_lock", "try_lock_for", "try_lock_until",
          "lock_shared", "unlock_shared"}
    [] M = "shared_timed_excl_mock" ->
         {"lock", "unlock", "try_lock", "try_lock_for", "try_lock_until",
          "lock_shared", "unlock_shared", "try_lock_shared"}
    [] M = "try_shared_only_mock" ->
         {"lock", "unlock", "try_lock", "try_lock_shared"}
    [] M = "shared_timed_no_try_mock" ->
         {"lock", "unlock", "try_lock", "try_lock_for", "try_lock_until",
          "lock_shared", "unlock_shared",
          "try_lock_shared_for", "try_lock_shared_until"}
    [] M = "shared_timed_mutex" ->
         {"lock", "unlock", "try_lock", "try_lock_for", "try_lock_until",
          "lock_shared", "unlock_shared", "try_lock_shared",
          "try_lock_shared_for", "try_lock_shared_until"}

basic_lockable(M) == {"lock", "unlock"} \subseteq Members(M)
lockable(M) == basic_lockable(M) /\ "try_lock" \in Members(M)
timed_lockable(M) ==
  lockable(M) /\ {"try_lock_for", "try_lock_until"} \subseteq Members(M)
basic_shared_lockable(M) == {"lock_shared", "unlock_shared"} \subseteq Members(M)
shared_lockable(M) == basic_shared_lockable(M) /\ "try_lock_shared" \in Members(M)
shared_timed_lockable(M) ==
  shared_lockable(M)
  /\ {"try_lock_shared_for", "try_lock_shared_until"} \subseteq Members(M)

\* A primitive is held exclusively by at most one thread, or shared by a set
\* of threads.  A locking operation of the primitive is given by its outcome:
\* ok, whether it can take the lock in this state (a blocking operation
\* returns only once ok holds, a try operation returns ok), and m, the
\* primitive's state once the lock is taken.
Unlocked == [excl |-> NoThread, shared |-> {}]
\* The mutex_ member of a synch whose constructor has not run yet.
Unconstructed == [excl |-> "unconstructed", shared |-> {}]
CanLock(m) == m.excl = NoThread /\ m.shared = {}
CanLockShared(m) == m.excl = NoThread
M_lock(m, t) == [ok |-> CanLock(m), m |-> [m EXCEPT !.excl = t]]
M_lock_shared(m, t) == [ok |-> CanLockShared(m), m |-> [m EXCEPT !.shared = @ \cup {t}]]
M_unlock(m) == [m EXCEPT !.excl = NoThread]
M_unlock_shared(m, t) == [m EXCEPT !.shared = @ \ {t}]

\* ------------------------------------------------------------ proxy_mutex
\* lock_read that returns without locking.
lock_read_nolock(M, m, t) == [ok |-> TRUE, m |-> m]
\* lock_read that always takes the exclusive lock.
lock_read_exclusive(M, m, t) == M_lock(m, t)
\* lock_read that takes the shared lock of every primitive type.
lock_read_shared(M, m, t) == M_lock_shared(m, t)
lock_read(M, m, t) == IF basic_shared_lockable(M) THEN M_lock_shared(m, t) ELSE M_lock(m, t)

\* lock_write that takes the shared lock.
lock_write_shared(M, m, t) == M_lock_shared(m, t)
lock_write(M, m, t) == M_lock(m, t)

\* try_lock_read that selects on try_lock_shared alone.
try_lock_read_anyshared(M, m, t) ==
  IF "try_lock_shared" \in Members(M) THEN M_lock_shared(m, t) ELSE M_lock(m, t)
try_lock_read(M, m, t) == IF shared_lockable(M) THEN M_lock_shared(m, t) ELSE M_lock(m, t)

try_lock_read_for(M, m, t) ==
  IF shared_timed_lockable(M) THEN M_lock_shared(m, t) ELSE M_lock(m, t)

try_lock_read_until(M, m, t) ==
  IF shared_timed_lockable(M) THEN M_lock_shared(m, t) ELSE M_lock(m, t)

try_lock_write_for(M, m, t) == M_lock(m, t)

try_lock_write_until(M, m, t) == M_lock(m, t)

\* try_lock_write that takes the shared lock.
try_lock_write_shared(M, m, t) == M_lock_shared(m, t)
try_lock_write(M, m, t) == M_lock(m, t)

unlock_read(M, m, t) == IF basic_shared_lockable(M) THEN M_unlock_shared(m, t) ELSE M_unlock(m)

unlock_write(M, m, t) == M_unlock(m)

\* ------------------------------------------------------- guards, adapters
\* synch_lock_guard<T, M>: const is std::is_const_v<T> (a read guard).
\* obj tells the guard objects in a thread's scope apart: the synch whose
\* lock call constructed the object (or its first ancestor by move
\* construction), and the object's place among the objects of that origin.
Guard(s, isConst) ==
  [kind |-> "synch_lock_guard", mutex_ |-> s, value_ |-> s, const |-> isConst,
   obj |-> <<s, 1>>]
rlock_guard(s) == Guard(s, TRUE)
wlock_guard(s) == Guard(s, FALSE)
\* L<M>(mutex, std::adopt_lock) for a raw mutex, and std::lock_guard.
Adapter(k, r) ==
  [kind |-> k, mutex_ |-> r, value_ |-> Null, const |-> FALSE, obj |-> <<r, 1>>]

\* synch_lock_guard::unlock, and the adapters' destructors.
unlock(g, m, t) ==
  IF g.mutex_ = Null THEN m
  ELSE IF g.kind # "synch_lock_guard" THEN M_unlock(m)
  ELSE IF g.const THEN unlock_read(MutexType(g.mutex_), m, t)
  ELSE unlock_write(MutexType(g.mutex_), m, t)

\* ----------------------------------------------------------------- frames
Idle == [op |-> "idle"]
\* first: for the multi-resource wlock, the position in args of the lockable
\* that the final round of std::lock took with the blocking lock().
NoRet == [op |-> "none", args |-> <<>>, ok |-> FALSE, handles |-> <<>>, first |-> 0]
\* acc is a set of accesses [t, s, w]: thread t read (w false) or wrote (w true)
\* the protected value of synch s.
NoAcc == {}
Access(t, s, w) == [t |-> t, s |-> s, w |-> w]
Returned(o, a, k, h) == [op |-> o, args |-> a, ok |-> k, handles |-> h, first |-> 0]

Range(f) == {f[i] : i \in DOMAIN f}
HeldRes(t) == {g.mutex_ : g \in guards[t]} \ {Null}

\* A thread starts an operation on resources it holds no guard on (re-locking
\* a synch in the same thread is documented misuse).
CanStart(t, rs) ==
  /\ pc[t] = Idle
  /\ ops[t] < MaxOps
  /\ rs \cap HeldRes(t) = {}

Start(t, frame) ==
  /\ pc' = [pc EXCEPT ![t] = frame]
  /\ ops' = [ops EXCEPT ![t] = @ + 1]
  /\ ret' = [ret EXCEPT ![t] = NoRet]
  /\ acc' = NoAcc
  /\ UNCHANGED <<mtx, value, guards>>

FinishWith(t, r) ==
  /\ pc' = [pc EXCEPT ![t] = Idle]
  /\ ret' = [ret EXCEPT ![t] = r]
  /\ guards' = [guards EXCEPT ![t] = @ \cup Range(r.handles)]
  /\ acc' = NoAcc

Finish(t, o, a, k, h) == FinishWith(t, Returned(o, a, k, h))

Init ==
  /\ mtx = [r \in AllRes |-> IF r \in New THEN Unconstructed ELSE Unlocked]
  /\ value = [s \in AllSynchs \cup AtomicFlags \cup EnumVars |-> 0]
  /\ guards = [t \in Threads |-> {}]
  /\ pc = [t \in Threads |-> Idle]
  /\ ret = [t \in Threads |-> NoRet]
  /\ ops = [t \in Threads |-> 0]
  /\ acc = NoAcc

\* ------------------------------------------------ synch: blocking locking
\* synch::rlock(): the call is entered, then lock_read returns once it can.
\* The guard objects in the scope of thread t that were first made on synch
\* s take the places {g.obj[2]}; a new guard object takes the lowest free one.
HasFreeObj(t, s) ==
  \E n \in 1..MaxObj : <<s, n>> \notin {g.obj : g \in guards[t]}
FreeObj(t, s) ==
  CHOOSE n \in 1..MaxObj :
    /\ <<s, n>> \notin {g.obj : g \in guards[t]}
    /\ \A k \in 1..(n - 1) : <<s, k>> \in {g.obj : g \in guards[t]}

CallRLock(t, s) ==
  /\ CanStart(t, {s})
  /\ Start(t, [op |-> "rlock", r |-> s])

RLock(t) ==
  /\ pc[t].op = "rlock"
  /\ LET s == pc[t].r IN
     /\ lock_read(MutexType(s), mtx[s], t).ok
     /\ mtx' = [mtx EXCEPT ![s] = lock_read(MutexType(s), @, t).m]
     /\ Finish(t, "rlock", <<s>>, TRUE,
               <<[rlock_guard(s) EXCEPT !.obj = <<s, FreeObj(t, s)>>]>>)
  /\ UNCHANGED <<value, ops>>

\* synch::wlock()
CallWLock(t, s) ==
  /\ CanStart(t, {s})
  /\ Start(t, [op |-> "wlock", r |-> s])

WLock(t) ==
  /\ pc[t].op = "wlock"
  /\ LET s == pc[t].r IN
     /\ lock_write(MutexType(s), mtx[s], t).ok
     /\ mtx' = [mtx EXCEPT ![s] = lock_write(MutexType(s), @, t).m]
     /\ Finish(t, "wlock", <<s>>, TRUE,
               <<[wlock_guard(s) EXCEPT !.obj = <<s, FreeObj(t, s)>>]>>)
  /\ UNCHANGED <<value, ops>>

\* std::lock_guard<std::mutex> lock(mutex): a direct lock on a raw mutex.
CallLockRaw(t, r) ==
  /\ CanStart(t, {r})
  /\ Start(t, [op |-> "lock_guard", r |-> r])

LockRaw(t) ==
  /\ pc[t].op = "lock_guard"
  /\ LET r == pc[t].r IN
     /\ M_lock(mtx[r], t).ok
     /\ mtx' = [mtx EXCEPT ![r] = M_lock(@, t).m]
     /\ Finish(t, "lock_guard", <<r>>, TRUE, <<Adapter("lock_guard", r)>>)
  /\ UNCHANGED <<value, ops>>

\* --------------------------------------------- synch: non-blocking locking
\* synch::try_rlock_impl: one call of try_lock_read decides the result.
try_rlock_impl(t, s) ==
  IF try_lock_read(MutexType(s), mtx[s], t).ok
  THEN /\ mtx' = [mtx EXCEPT ![s] = try_lock_read(MutexType(s), @, t).m]
       /\ Finish(t, "try_rlock", <<s>>, TRUE, <<rlock_guard(s)>>)
  ELSE /\ mtx' = mtx
       /\ Finish(t, "try_rlock", <<s>>, FALSE, <<>>)

TryRLock(t, s) ==
  /\ CanStart(t, {s})
  /\ try_rlock_impl(t, s)
  /\ ops' = [ops EXCEPT ![t] = @ + 1]
  /\ UNCHANGED value

\* synch::try_wlock_impl
try_wlock_impl(t, s) ==
  IF try_lock_write(MutexType(s), mtx[s], t).ok
  THEN /\ mtx' = [mtx EXCEPT ![s] = try_lock_write(MutexType(s), @, t).m]
       /\ Finish(t, "try_wlock", <<s>>, TRUE, <<wlock_guard(s)>>)
  ELSE /\ mtx' = mtx
       /\ Finish(t, "try_wlock", <<s>>, FALSE, <<>>)

TryWLock(t, s) ==
  /\ CanStart(t, {s})
  /\ try_wlock_impl(t, s)
  /\ ops' = [ops EXCEPT ![t] = @ + 1]
  /\ UNCHANGED value

\* ------------------------------------------------ synch: bounded-wait locking
\* try_wlock_for(duration) / try_wlock_until(time) and the read forms.
TimedForms == {"for", "until"}

\* A timed write try-lock that takes the shared lock.
try_lock_write_timed_shared(form, M, m, t) == M_lock_shared(m, t)

try_lock_write_timed(form, M, m, t) ==
  IF form = "for" THEN try_lock_write_for(M, m, t) ELSE try_lock_write_until(M, m, t)

try_lock_read_timed(form, M, m, t) ==
  IF form = "for" THEN try_lock_read_for(M, m, t) ELSE try_lock_read_until(M, m, t)

\* synch::try_wlock_for_impl / try_wlock_until_impl: the timed try-lock takes
\* the lock at once when it is free; otherwise the caller waits.
CallTryWLockTimed(t, s, form) ==
  /\ CanStart(t, {s})
  /\ LET o == try_lock_write_timed(form, MutexType(s), mtx[s], t) IN
     IF o.ok
     THEN /\ mtx' = [mtx EXCEPT ![s] = o.m]
          /\ Finish(t, "try_wlock_" \o form, <<s>>, TRUE, <<wlock_guard(s)>>)
     ELSE /\ pc' = [pc EXCEPT ![t] = [op |-> "try_wlock_" \o form, r |-> s, form |-> form]]
          /\ ret' = [ret EXCEPT ![t] = NoRet]
          /\ acc' = NoAcc
          /\ UNCHANGED <<mtx, guards>>
  /\ ops' = [ops EXCEPT ![t] = @ + 1]
  /\ UNCHANGED value

\* The lock became free before the bound: a live write guard is returned.
TimedWLock(t) ==
  /\ pc[t].op \in {"try_wlock_for", "try_wlock_until"}
  /\ LET s == pc[t].r
         o == try_lock_write_timed(pc[t].form, MutexType(s), mtx[s], t)
     IN /\ o.ok
        /\ mtx' = [mtx EXCEPT ![s] = o.m]
        /\ Finish(t, pc[t].op, <<s>>, TRUE, <<wlock_guard(s)>>)
  /\ UNCHANGED <<value, ops>>

\* synch::try_rlock_for_impl / try_rlock_until_impl
CallTryRLockTimed(t, s, form) ==
  /\ CanStart(t, {s})
  /\ LET o == try_lock_read_timed(form, MutexType(s), mtx[s], t) IN
     IF o.ok
     THEN /\ mtx' = [mtx EXCEPT ![s] = o.m]
          /\ Finish(t, "try_rlock_" \o form, <<s>>, TRUE, <<rlock_guard(s)>>)
     ELSE /\ pc' = [pc EXCEPT ![t] = [op |-> "try_rlock_" \o form, r |-> s, form |-> form]]
          /\ ret' = [ret EXCEPT ![t] = NoRet]
          /\ acc' = NoAcc
          /\ UNCHANGED <<mtx, guards>>
  /\ ops' = [ops EXCEPT ![t] = @ + 1]
  /\ UNCHANGED value

TimedRLock(t) ==
  /\ pc[t].op \in {"try_rlock_for", "try_rlock_until"}
  /\ LET s == pc[t].r
         o == try_lock_read_timed(pc[t].form, MutexType(s), mtx[s], t)
     IN /\ o.ok
        /\ mtx' = [mtx EXCEPT ![s] = o.m]
        /\ Finish(t, pc[t].op, <<s>>, TRUE, <<rlock_guard(s)>>)
  /\ UNCHANGED <<value, ops>>

\* The bound elapses while the caller is waiting and the lock still cannot be
\* taken: the timed try-lock returns false (it does not fail on a lock that
\* can be taken) and the impl returns the empty optional.
Timeout(t) ==
  /\ pc[t].op \in {"try_wlock_for", "try_wlock_until",
                   "try_rlock_for", "try_rlock_until"}
  /\ LET s == pc[t].r
         o == IF pc[t].op \in {"try_wlock_for", "try_wlock_until"}
              THEN try_lock_write_timed(pc[t].form, MutexType(s), mtx[s], t)
              ELSE try_lock_read_timed(pc[t].form, MutexType(s), mtx[s], t)
     IN ~o.ok
  /\ Finish(t, pc[t].op, <<pc[t].r>>, FALSE, <<>>)
  /\ UNCHANGED <<mtx, value, ops>>

\* --------------------------------------------- multi-resource wlock (std::lock)
\* The argument lists of extra::wlock / extra::try_wlock: two or more distinct
\* resources (std::lock and std::try_lock take at least two lockables).
ArgLists ==
  {a \in UNION {[1..n -> Res] : n \in 2..Cardinality(Res)} :
     \A i, j \in DOMAIN a : i # j => a[i] # a[j]}

\* detail::get_mutex_ref: a synch yields its mutex_, a raw mutex itself.
get_mutex_ref(r) == r

\* adopt_lock_deferred: the adapter of a raw mutex does not own the lock (as
\* with std::defer_lock) and never releases it.
\* detail::adopt_lock<L>: a wlock_guard for a synch, L<M>(m, adopt_lock) for a
\* raw mutex.  Neither locks the primitive again.
adopt_lock_deferred(r) ==
  IF r \in Synchs THEN wlock_guard(r)
  ELSE [Adapter("unique_lock", r) EXCEPT !.mutex_ = Null]
adopt_lock(r) == IF r \in Synchs THEN wlock_guard(r) ELSE Adapter("unique_lock", r)

\* The handles in the reverse of the arguments' order.
AdoptAll_reversed(args) ==
  [i \in DOMAIN args |-> adopt_lock(args[Len(args) + 1 - i])]

\* std::make_tuple(detail::adopt_lock<L>(args)...): one handle per argument,
\* in the order of the arguments.
AdoptAll(args) == [i \in DOMAIN args |-> adopt_lock(args[i])]

\* The d-th lockable (d = 0, 1, ...) counted cyclically from position i.
Rot(i, d, n) == ((i - 1 + d) % n) + 1

\* extra::wlock(args...) is entered; detail::wlock_impl ties the mutex
\* references and calls std::lock, which starts with the first lockable.
CallWLockN(t, args) ==
  /\ CanStart(t, Range(args))
  /\ Start(t, [op |-> "wlockN", args |-> args, phase |-> "lock",
               i |-> 1, k |-> 0, failed |-> 0])

\* A first lock that does not wait: it goes on whether or not it got the lock.
LockAllBlock_nowait(t) ==
  /\ pc[t].op \in {"wlockN", "move_assign"} /\ pc[t].phase = "lock"
  /\ LET r == get_mutex_ref(pc[t].args[pc[t].i]) IN
     mtx' = IF M_lock(mtx[r], t).ok THEN [mtx EXCEPT ![r] = M_lock(@, t).m] ELSE mtx
  /\ pc' = [pc EXCEPT ![t].phase = "try", ![t].k = 1]
  /\ acc' = NoAcc
  /\ UNCHANGED <<value, guards, ret, ops>>

\* std::lock: the blocking lock() on lockable i.
LockAllBlock(t) ==
  /\ pc[t].op \in {"wlockN", "move_assign"} /\ pc[t].phase = "lock"
  /\ LET r == get_mutex_ref(pc[t].args[pc[t].i]) IN
     /\ M_lock(mtx[r], t).ok
     /\ mtx' = [mtx EXCEPT ![r] = M_lock(@, t).m]
  /\ pc' = [pc EXCEPT ![t].phase = "try", ![t].k = 1]
  /\ acc' = NoAcc
  /\ UNCHANGED <<value, guards, ret, ops>>

\* detail::wlock_impl after std::lock returned: the tuple of adopted handles
\* goes to the caller of extra::wlock, which is the thread's own code or
\* synch::operator=(synch&&).
wlock_impl_return(t, f) ==
  IF f.op = "wlockN"
  THEN FinishWith(t, [Returned("wlockN", f.args, TRUE, AdoptAll(f.args))
                        EXCEPT !.first = f.i])
  ELSE /\ pc' = [pc EXCEPT ![t].phase = "assign", ![t].handles = AdoptAll(f.args)]
       /\ acc' = NoAcc
       /\ UNCHANGED <<guards, ret>>

\* Locking in order: the further lockables are taken with a blocking lock()
\* while the ones already taken stay held.
LockAllTry_blocking(t) ==
  /\ pc[t].op \in {"wlockN", "move_assign"} /\ pc[t].phase = "try"
  /\ LET f == pc[t]
         n == Len(f.args)
         r == get_mutex_ref(f.args[Rot(f.i, f.k, n)])
     IN /\ M_lock(mtx[r], t).ok
        /\ mtx' = [mtx EXCEPT ![r] = M_lock(@, t).m]
        /\ IF f.k + 1 = n
           THEN wlock_impl_return(t, f)
           ELSE /\ pc' = [pc EXCEPT ![t].k = f.k + 1]
                /\ acc' = NoAcc
                /\ UNCHANGED <<guards, ret>>
  /\ UNCHANGED <<value, ops>>

\* std::lock: try_lock() on the next lockable after the k already held.  When
\* the last one is taken std::lock returns and wlock_impl adopts every lock;
\* a failed try_lock starts the back-off.
LockAllTry(t) ==
  /\ pc[t].op \in {"wlockN", "move_assign"} /\ pc[t].phase = "try"
  /\ LET f == pc[t]
         n == Len(f.args)
         r == get_mutex_ref(f.args[Rot(f.i, f.k, n)])
     IN IF M_lock(mtx[r], t).ok
        THEN /\ mtx' = [mtx EXCEPT ![r] = M_lock(@, t).m]
             /\ IF f.k + 1 = n
                THEN wlock_impl_return(t, f)
                ELSE /\ pc' = [pc EXCEPT ![t].k = f.k + 1]
                     /\ acc' = NoAcc
                     /\ UNCHANGED <<guards, ret>>
        ELSE /\ pc' = [pc EXCEPT ![t].phase = "backoff", ![t].failed = f.k]
             /\ acc' = NoAcc
             /\ UNCHANGED <<mtx, guards, ret>>
  /\ UNCHANGED <<value, ops>>

\* A back-off that keeps the locks of the failed round.
LockAllBackoff_keep(t) ==
  /\ pc[t].op \in {"wlockN", "move_assign"} /\ pc[t].phase = "backoff"
  /\ LET f == pc[t]
         n == Len(f.args)
     IN pc' = [pc EXCEPT ![t].phase = "lock", ![t].k = 0,
                         ![t].i = Rot(f.i, f.failed, n), ![t].failed = 0]
  /\ acc' = NoAcc
  /\ UNCHANGED <<mtx, value, guards, ret, ops>>

\* std::lock: the locks taken in this round are released, last taken first;
\* the next round blocks on the lockable whose try_lock failed.
LockAllBackoff(t) ==
  /\ pc[t].op \in {"wlockN", "move_assign"} /\ pc[t].phase = "backoff"
  /\ LET f == pc[t]
         n == Len(f.args)
         r == get_mutex_ref(f.args[Rot(f.i, f.k - 1, n)])
     IN /\ mtx' = [mtx EXCEPT ![r] = M_unlock(@)]
        /\ pc' = IF f.k = 1
                 THEN [pc EXCEPT ![t].phase = "lock", ![t].k = 0,
                                 ![t].i = Rot(f.i, f.failed, n), ![t].failed = 0]
                 ELSE [pc EXCEPT ![t].k = f.k - 1]
  /\ acc' = NoAcc
  /\ UNCHANGED <<value, guards, ret, ops>>

\* ------------------------------------- multi-resource try_wlock (std::try_lock)
\* extra::try_wlock(args...) is entered; std::try_lock starts with the first
\* lockable.  idx is the value std::try_lock is going to return.
CallTryWLockN(t, args) ==
  /\ CanStart(t, Range(args))
  /\ Start(t, [op |-> "try_wlockN", args |-> args, phase |-> "try",
               k |-> 0, idx |-> -1])

\* Success read off as index 0.
try_lock_all_impl_zero(idx) == idx = 0

\* detail::try_lock_all_impl: std::try_lock returns -1 on success, else the
\* 0-based index of the lockable whose try_lock failed.
try_lock_all_impl(idx) == idx = -1

\* detail::try_wlock_impl after std::try_lock returned idx.
try_wlock_impl_return(t, f, idx) ==
  IF ~try_lock_all_impl(idx)
  THEN Finish(t, "try_wlockN", f.args, FALSE, <<>>)
  ELSE Finish(t, "try_wlockN", f.args, TRUE, AdoptAll(f.args))

\* A pass that waits for each lockable instead of trying it.
TryLockAllTry_blocking(t) ==
  /\ pc[t].op = "try_wlockN" /\ pc[t].phase = "try"
  /\ LET f == pc[t]
         n == Len(f.args)
         r == get_mutex_ref(f.args[f.k + 1])
     IN /\ M_lock(mtx[r], t).ok
        /\ mtx' = [mtx EXCEPT ![r] = M_lock(@, t).m]
        /\ IF f.k + 1 = n
           THEN try_wlock_impl_return(t, f, -1)
           ELSE /\ pc' = [pc EXCEPT ![t].k = f.k + 1]
                /\ acc' = NoAcc
                /\ UNCHANGED <<guards, ret>>
  /\ UNCHANGED <<value, ops>>

\* std::try_lock: try_lock() on the lockables in the order given.  After the
\* last one it returns -1.  The first failure ends the pass: the locks taken
\* are released (none taken: it returns the index at once).
TryLockAllTry(t) ==
  /\ pc[t].op = "try_wlockN" /\ pc[t].phase = "try"
  /\ LET f == pc[t]
         n == Len(f.args)
         r == get_mutex_ref(f.args[f.k + 1])
     IN IF M_lock(mtx[r], t).ok
        THEN /\ mtx' = [mtx EXCEPT ![r] = M_lock(@, t).m]
             /\ IF f.k + 1 = n
                THEN try_wlock_impl_return(t, f, -1)
                ELSE /\ pc' = [pc EXCEPT ![t].k = f.k + 1]
                     /\ acc' = NoAcc
                     /\ UNCHANGED <<guards, ret>>
        ELSE /\ mtx' = mtx
             /\ IF f.k = 0
                THEN try_wlock_impl_return(t, f, f.k)
                ELSE /\ pc' = [pc EXCEPT ![t].phase = "unwind", ![t].idx = f.k]
                     /\ acc' = NoAcc
                     /\ UNCHANGED <<guards, ret>>
  /\ UNCHANGED <<value, ops>>

\* A failed pass that returns without releasing what it took.
TryLockAllUnwind_skip(t) ==
  /\ pc[t].op = "try_wlockN" /\ pc[t].phase = "unwind"
  /\ try_wlock_impl_return(t, pc[t], pc[t].idx)
  /\ UNCHANGED <<mtx, value, ops>>

\* std::try_lock: after a failure the locks taken are released, last taken
\* first; then it returns the failed index to try_wlock_impl.
TryLockAllUnwind(t) ==
  /\ pc[t].op = "try_wlockN" /\ pc[t].phase = "unwind"
  /\ LET f == pc[t]
         r == get_mutex_ref(f.args[f.k])
     IN /\ mtx' = [mtx EXCEPT ![r] = M_unlock(@)]
        /\ IF f.k = 1
           THEN try_wlock_impl_return(t, f, f.idx)
           ELSE /\ pc' = [pc EXCEPT ![t].k = f.k - 1]
                /\ acc' = NoAcc
                /\ UNCHANGED <<guards, ret>>
  /\ UNCHANGED <<value, ops>>

\* ------------------------------------------- synch: copy / move construction
\* synch(synch const& other) : value_(*other.rlock()) and
\* synch(synch&& other) : value_(std::move(*other.wlock())); mutex_{} follows.
CallConstruct(t, o, n, src) ==
  /\ CanStart(t, {src})
  /\ mtx[n] = Unconstructed
  /\ \A u \in Threads : pc[u].op \in {"copy_ctor", "move_ctor"} => pc[u].dst # n
  /\ Start(t, [op |-> o, dst |-> n, src |-> src, phase |-> "lock"])

\* other.rlock() / other.wlock() inside the member initialiser.
ConstructLock(t) ==
  /\ pc[t].op \in {"copy_ctor", "move_ctor"} /\ pc[t].phase = "lock"
  /\ LET src == pc[t].src
         M == MutexType(src)
     IN IF pc[t].op = "copy_ctor"
        THEN /\ lock_read(M, mtx[src], t).ok
             /\ mtx' = [mtx EXCEPT ![src] = lock_read(M, @, t).m]
        ELSE /\ lock_write(M, mtx[src], t).ok
             /\ mtx' = [mtx EXCEPT ![src] = lock_write(M, @, t).m]
  /\ pc' = [pc EXCEPT ![t].phase = "init"]
  /\ acc' = NoAcc
  /\ UNCHANGED <<value, guards, ret, ops>>

\* value_ is initialised from the dereferenced temporary guard; a move leaves
\* the source in a moved-from state, which is some value of the type.
ConstructInit(t) ==
  /\ pc[t].op \in {"copy_ctor", "move_ctor"} /\ pc[t].phase = "init"
  /\ LET src == pc[t].src
         n == pc[t].dst
     IN IF pc[t].op = "copy_ctor"
        THEN /\ value' = [value EXCEPT ![n] = value[src]]
             /\ acc' = {Access(t, src, FALSE)}
        ELSE /\ \E mf \in Val : value' = [value EXCEPT ![n] = value[src], ![src] = mf]
             /\ acc' = {Access(t, src, TRUE)}
  /\ pc' = [pc EXCEPT ![t].phase = "done"]
  /\ UNCHANGED <<mtx, guards, ret, ops>>

\* A constructor that initialises the new object's mutex_ from the state of
\* the source's.
ConstructDone_copystate(t) ==
  /\ pc[t].op \in {"copy_ctor", "move_ctor"} /\ pc[t].phase = "done"
  /\ LET src == pc[t].src
         n == pc[t].dst
         g == IF pc[t].op = "copy_ctor" THEN rlock_guard(src) ELSE wlock_guard(src)
     IN /\ mtx' = [mtx EXCEPT ![src] = unlock(g, @, t), ![n] = mtx[src]]
        /\ Finish(t, pc[t].op, <<n, src>>, TRUE, <<>>)
  /\ UNCHANGED <<value, ops>>

\* The temporary guard is destroyed at the end of the initialiser, then the
\* new object's mutex_ is default-initialised and the constructor returns.
ConstructDone(t) ==
  /\ pc[t].op \in {"copy_ctor", "move_ctor"} /\ pc[t].phase = "done"
  /\ LET src == pc[t].src
         n == pc[t].dst
         g == IF pc[t].op = "copy_ctor" THEN rlock_guard(src) ELSE wlock_guard(src)
     IN /\ mtx' = [mtx EXCEPT ![src] = unlock(g, @, t), ![n] = Unlocked]
        /\ Finish(t, pc[t].op, <<n, src>>, TRUE, <<>>)
  /\ UNCHANGED <<value, ops>>

\* ---------------------------------------------------- synch: copy assignment
\* A copy assignment without the addressof test.
CallCopyAssign_nocheck(t, dst, src) ==
  /\ CanStart(t, {dst, src})
  /\ Start(t, [op |-> "copy_assign", dst |-> dst, src |-> src,
               phase |-> "lock_this"])

\* synch& operator=(synch const& other): nothing happens on self-assignment.
CallCopyAssign(t, dst, src) ==
  /\ CanStart(t, {dst, src})
  /\ IF dst = src
     THEN /\ Finish(t, "copy_assign", <<dst, src>>, TRUE, <<>>)
          /\ ops' = [ops EXCEPT ![t] = @ + 1]
          /\ UNCHANGED <<mtx, value>>
     ELSE Start(t, [op |-> "copy_assign", dst |-> dst, src |-> src,
                    phase |-> "lock_this"])

\* A copy assignment that goes on without locking its own mutex_.
CopyAssignLockThis_skip(t) ==
  /\ pc[t].op = "copy_assign" /\ pc[t].phase = "lock_this"
  /\ pc' = [pc EXCEPT ![t].phase = "rlock_other"]
  /\ acc' = NoAcc
  /\ UNCHANGED <<mtx, value, guards, ret, ops>>

\* std::lock_guard lock(mutex_)
CopyAssignLockThis(t) ==
  /\ pc[t].op = "copy_assign" /\ pc[t].phase = "lock_this"
  /\ M_lock(mtx[pc[t].dst], t).ok
  /\ mtx' = [mtx EXCEPT ![pc[t].dst] = M_lock(@, t).m]
  /\ pc' = [pc EXCEPT ![t].phase = "rlock_other"]
  /\ acc' = NoAcc
  /\ UNCHANGED <<value, guards, ret, ops>>

\* other.rlock()
CopyAssignRLockOther(t) ==
  /\ pc[t].op = "copy_assign" /\ pc[t].phase = "rlock_other"
  /\ LET src == pc[t].src IN
     /\ lock_read(MutexType(src), mtx[src], t).ok
     /\ mtx' = [mtx EXCEPT ![src] = lock_read(MutexType(src), @, t).m]
  /\ pc' = [pc EXCEPT ![t].phase = "assign"]
  /\ acc' = NoAcc
  /\ UNCHANGED <<value, guards, ret, ops>>

\* value_ = *guard
CopyAssignAssign(t) ==
  /\ pc[t].op = "copy_assign" /\ pc[t].phase = "assign"
  /\ value' = [value EXCEPT ![pc[t].dst] = value[pc[t].src]]
  /\ acc' = {Access(t, pc[t].src, FALSE), Access(t, pc[t].dst, TRUE)}
  /\ pc' = [pc EXCEPT ![t].phase = "unlock_other"]
  /\ UNCHANGED <<mtx, guards, ret, ops>>

\* A copy assignment whose read guard on the source is never released.
CopyAssignUnlockOther_skip(t) ==
  /\ pc[t].op = "copy_assign" /\ pc[t].phase = "unlock_other"
  /\ pc' = [pc EXCEPT ![t].phase = "unlock_this"]
  /\ acc' = NoAcc
  /\ UNCHANGED <<mtx, value, guards, ret, ops>>

\* The temporary read guard is destroyed at the end of the statement.
CopyAssignUnlockOther(t) ==
  /\ pc[t].op = "copy_assign" /\ pc[t].phase = "unlock_other"
  /\ mtx' = [mtx EXCEPT ![pc[t].src] = unlock(rlock_guard(pc[t].src), @, t)]
  /\ pc' = [pc EXCEPT ![t].phase = "unlock_this"]
  /\ acc' = NoAcc
  /\ UNCHANGED <<value, guards, ret, ops>>

\* The lock_guard is destroyed at the end of the block; operator= returns.
CopyAssignUnlockThis(t) ==
  /\ pc[t].op = "copy_assign" /\ pc[t].phase = "unlock_this"
  /\ mtx' = [mtx EXCEPT ![pc[t].dst] = M_unlock(@)]
  /\ Finish(t, "copy_assign", <<pc[t].dst, pc[t].src>>, TRUE, <<>>)
  /\ UNCHANGED <<value, ops>>

\* ---------------------------------------------------- synch: move assignment
\* synch& operator=(synch&& other): extra::wlock(mutex_, other) is entered
\* unless this is a self-assignment.
CallMoveAssign(t, dst, src) ==
  /\ CanStart(t, {dst, src})
  /\ IF dst = src
     THEN /\ Finish(t, "move_assign", <<dst, src>>, TRUE, <<>>)
          /\ ops' = [ops EXCEPT ![t] = @ + 1]
          /\ UNCHANGED <<mtx, value>>
     ELSE Start(t, [op |-> "move_assign", args |-> <<dst, src>>, phase |-> "lock",
                    i |-> 1, k |-> 0, failed |-> 0, handles |-> <<>>])

\* value_ = std::move(*std::get<1>(lock_and_handle))
MoveAssignAssign(t) ==
  /\ pc[t].op = "move_assign" /\ pc[t].phase = "assign"
  /\ LET dst == pc[t].args[1]
         src == pc[t].handles[2].value_
     IN /\ \E mf \in Val : value' = [value EXCEPT ![dst] = value[src], ![src] = mf]
        /\ acc' = {Access(t, src, TRUE), Access(t, dst, TRUE)}
  /\ pc' = [pc EXCEPT ![t].phase = "release"]
  /\ UNCHANGED <<mtx, guards, ret, ops>>

\* lock_and_handle is destroyed at the end of the block: each element releases
\* its lock (the order of a tuple's element destructors is the library's), and
\* operator= returns after the last one.
MoveAssignRelease(t) ==
  /\ pc[t].op = "move_assign" /\ pc[t].phase = "release"
  /\ \E j \in DOMAIN pc[t].handles :
       LET g == pc[t].handles[j]
           rest == [x \in DOMAIN pc[t].handles |->
                      IF x = j THEN [g EXCEPT !.mutex_ = Null, !.value_ = Null]
                      ELSE pc[t].handles[x]]
       IN /\ g.mutex_ # Null
          /\ mtx' = [mtx EXCEPT ![g.mutex_] = unlock(g, @, t)]
          /\ IF \A x \in DOMAIN rest : rest[x].mutex_ = Null
             THEN Finish(t, "move_assign", pc[t].args, TRUE, <<>>)
             ELSE /\ pc' = [pc EXCEPT ![t].handles = rest]
                  /\ acc' = NoAcc
                  /\ UNCHANGED <<guards, ret>>
  /\ UNCHANGED <<value, ops>>

\* ------------------------------------------------------- guard life, access
\* The guard releases with unlock_shared().
SharedRelease(g) ==
  g.kind = "synch_lock_guard" /\ g.const /\ basic_shared_lockable(MutexType(g.mutex_))

\* The states of the primitives after g.unlock() in thread t.  An empty guard
\* touches no primitive.  unlock_shared() by a thread that does not hold the
\* primitive shared is outside the primitive's contract: the thread's lock
\* may stay or go.
Release(g, t) ==
  IF g.mutex_ = Null THEN {mtx}
  ELSE IF SharedRelease(g) /\ t \notin mtx[g.mutex_].shared
  THEN {mtx, [mtx EXCEPT ![g.mutex_] = M_unlock(@)]}
  ELSE {[mtx EXCEPT ![g.mutex_] = unlock(g, @, t)]}

\* ~synch_lock_guard (and the adapters' destructors): unlock().
Destroy(t, g) ==
  /\ pc[t] = Idle
  /\ g \in guards[t]
  /\ mtx' \in Release(g, t)
  /\ guards' = [guards EXCEPT ![t] = @ \ {g}]
  /\ ret' = [ret EXCEPT ![t] = NoRet]
  /\ acc' = NoAcc
  /\ UNCHANGED <<value, pc, ops>>

\* A moved-from guard that loses mutex_ and keeps value_.
exchange_mutex_only(g) == [g EXCEPT !.mutex_ = Null]

\* A moved-from guard that keeps its pointers.
exchange_kept(g) == g

\* std::exchange(other.mutex_, nullptr), std::exchange(other.value_, nullptr):
\* what is left of the guard that was moved from.
exchange(g) == [g EXCEPT !.mutex_ = Null, !.value_ = Null]

\* A move construction that releases the lock the source guard holds.
MoveConstruct_release(t, g) ==
  /\ pc[t] = Idle
  /\ g \in guards[t]
  /\ g.kind = "synch_lock_guard"
  /\ g.obj[2] < MaxObj
  /\ LET new == [g EXCEPT !.obj = <<g.obj[1], g.obj[2] + 1>>] IN
     /\ \A h \in guards[t] : h.obj # new.obj
     /\ guards' = [guards EXCEPT ![t] = (@ \ {g}) \cup {exchange(g), new}]
  /\ mtx' \in Release(g, t)
  /\ ret' = [ret EXCEPT ![t] = NoRet]
  /\ acc' = NoAcc
  /\ UNCHANGED <<value, pc, ops>>

\* synch_lock_guard(synch_lock_guard&& other): a new guard object takes the
\* pointers of other; no primitive is touched.
MoveConstruct(t, g) ==
  /\ pc[t] = Idle
  /\ g \in guards[t]
  /\ g.kind = "synch_lock_guard"
  /\ g.obj[2] < MaxObj
  /\ LET new == [g EXCEPT !.obj = <<g.obj[1], g.obj[2] + 1>>] IN
     /\ \A h \in guards[t] : h.obj # new.obj
     /\ guards' = [guards EXCEPT ![t] = (@ \ {g}) \cup {exchange(g), new}]
  /\ ret' = [ret EXCEPT ![t] = NoRet]
  /\ acc' = NoAcc
  /\ UNCHANGED <<mtx, value, pc, ops>>

\* A move assignment that takes the pointers of other without unlock().
MoveAssign_nounlock(t, g, other) ==
  /\ pc[t] = Idle
  /\ g \in guards[t] /\ other \in guards[t]
  /\ g.kind = "synch_lock_guard" /\ other.kind = "synch_lock_guard"
  /\ g.const = other.const
  /\ IF other = g
     THEN UNCHANGED guards
     ELSE guards' = [guards EXCEPT ![t] =
            (@ \ {g, other})
              \cup {exchange(other),
                    [g EXCEPT !.mutex_ = other.mutex_, !.value_ = other.value_]}]
  /\ ret' = [ret EXCEPT ![t] = NoRet]
  /\ acc' = NoAcc
  /\ UNCHANGED <<mtx, value, pc, ops>>

\* operator=(synch_lock_guard&& other): nothing on self-assignment; otherwise
\* the guard releases what it holds and takes the pointers of other.
MoveAssign(t, g, other) ==
  /\ pc[t] = Idle
  /\ g \in guards[t] /\ other \in guards[t]
  /\ g.kind = "synch_lock_guard" /\ other.kind = "synch_lock_guard"
  /\ g.const = other.const
  /\ IF other = g
     THEN UNCHANGED <<mtx, guards>>
     ELSE /\ mtx' \in Release(g, t)
          /\ guards' = [guards EXCEPT ![t] =
               (@ \ {g, other})
                 \cup {exchange(other),
                       [g EXCEPT !.mutex_ = other.mutex_, !.value_ = other.value_]}]
  /\ ret' = [ret EXCEPT ![t] = NoRet]
  /\ acc' = NoAcc
  /\ UNCHANGED <<value, pc, ops>>

\* operator* / operator-> of a guard, used to read the value.
Read(t, g) ==
  /\ pc[t] = Idle
  /\ g \in guards[t]
  /\ g.value_ # Null
  /\ acc = NoAcc
  /\ acc' = {Access(t, g.value_, FALSE)}
  /\ UNCHANGED <<mtx, value, guards, pc, ret, ops>>

\* operator* of a write guard (T not const), used to assign the value.
Write(t, g, v) ==
  /\ pc[t] = Idle
  /\ g \in guards[t]
  /\ g.value_ # Null
  /\ ~g.const
  /\ acc = NoAcc
  /\ value' = [value EXCEPT ![g.value_] = v]
  /\ acc' = {Access(t, g.value_, TRUE)}
  /\ UNCHANGED <<mtx, guards, pc, ret, ops>>

\* ------------------------------------------------------------ atomic_flags
\* The bitwise operators of the underlying type, bit by bit from the lowest.
OrBit == [x \in 0..1 |-> [y \in 0..1 |-> IF x + y > 0 THEN 1 ELSE 0]]
AndBit == [x \in 0..1 |-> [y \in 0..1 |-> x * y]]
XorBit == [x \in 0..1 |-> [y \in 0..1 |-> (x + y) % 2]]

RECURSIVE Bitwise(_, _, _, _)
Bitwise(bit, a, b, n) ==
  IF n = 0 THEN 0
  ELSE bit[a % 2][b % 2] + 2 * Bitwise(bit, a \div 2, b \div 2, n - 1)

\* operator~ on the underlying type.
Complement(m) == (2^FlagBits - 1) - m

\* fetch_or that stores the operand.
fetch_or_store(w, m) == m
\* std::atomic<underlying_type>: the new value each read-modify-write leaves.
fetch_or(w, m) == Bitwise(OrBit, w, m, FlagBits)
fetch_and(w, m) == Bitwise(AndBit, w, m, FlagBits)
fetch_xor(w, m) == Bitwise(XorBit, w, m, FlagBits)
store(w, v) == v

\* set(flags): the mask is computed, then value_.fetch_or(mask) runs.
CallSet(t, a, f) ==
  /\ CanStart(t, {})
  /\ Start(t, [op |-> "set", af |-> a, flags |-> f, mask |-> f])

Set(t) ==
  /\ pc[t].op = "set"
  /\ value' = [value EXCEPT ![pc[t].af] = fetch_or(@, pc[t].mask)]
  /\ Finish(t, "set", <<pc[t].af, pc[t].flags>>, TRUE, <<>>)
  /\ UNCHANGED <<mtx, ops>>

\* clear(flags): the mask is the complement of the flags, then
\* value_.fetch_and(mask) runs.
CallClear(t, a, f) ==
  /\ CanStart(t, {})
  /\ Start(t, [op |-> "clear", af |-> a, flags |-> f, mask |-> Complement(f)])

Clear(t) ==
  /\ pc[t].op = "clear"
  /\ value' = [value EXCEPT ![pc[t].af] = fetch_and(@, pc[t].mask)]
  /\ Finish(t, "clear", <<pc[t].af, pc[t].flags>>, TRUE, <<>>)
  /\ UNCHANGED <<mtx, ops>>

\* clear_all(): value_.store(0).
CallClearAll(t, a) ==
  /\ CanStart(t, {})
  /\ Start(t, [op |-> "clear_all", af |-> a, flags |-> 0, mask |-> 0])

ClearAll(t) ==
  /\ pc[t].op = "clear_all"
  /\ value' = [value EXCEPT ![pc[t].af] = store(@, 0)]
  /\ Finish(t, "clear_all", <<pc[t].af, pc[t].flags>>, TRUE, <<>>)
  /\ UNCHANGED <<mtx, ops>>

\* toggle(flags): the mask is computed, then value_.fetch_xor(mask) runs.
CallToggle(t, a, f) ==
  /\ CanStart(t, {})
  /\ Start(t, [op |-> "toggle", af |-> a, flags |-> f, mask |-> f])

Toggle(t) ==
  /\ pc[t].op = "toggle"
  /\ value' = [value EXCEPT ![pc[t].af] = fetch_xor(@, pc[t].mask)]
  /\ Finish(t, "toggle", <<pc[t].af, pc[t].flags>>, TRUE, <<>>)
  /\ UNCHANGED <<mtx, ops>>

\* ------------------------------------------------------------ specification
\* The operations of one synch object: locking, guard life, value access.
SynchStep(t) ==
  \/ \E s \in Synchs : CallRLock(t, s)
  \/ RLock(t)
  \/ \E s \in Synchs : CallWLock(t, s)
  \/ WLock(t)
  \/ \E s \in Synchs : TryRLock(t, s)
  \/ \E s \in Synchs : TryWLock(t, s)
  \/ \E s \in Synchs, f \in TimedForms : CallTryWLockTimed(t, s, f)
  \/ TimedWLock(t)
  \/ \E s \in Synchs, f \in TimedForms : CallTryRLockTimed(t, s, f)
  \/ TimedRLock(t)
  \/ Timeout(t)
  \/ \E g \in guards[t] : Destroy(t, g)
  \/ \E g \in guards[t] : Read(t, g)
  \/ \E g \in guards[t], v \in Val : Write(t, g, v)

Next == \E t \in Threads : SynchStep(t)

Spec == Init /\ [][Next]_vars

\* The multi-resource functions, competing with each other and with threads
\* that hold a read guard, a write guard or a direct lock on the raw mutex.
CoordStep(t) ==
  \/ \E a \in ArgLists : CallWLockN(t, a)
  \/ LockAllBlock(t)
  \/ LockAllTry(t)
  \/ LockAllBackoff(t)
  \/ \E a \in ArgLists : CallTryWLockN(t, a)
  \/ TryLockAllTry(t)
  \/ TryLockAllUnwind(t)
  \/ \E s \in Synchs : CallRLock(t, s)
  \/ RLock(t)
  \/ \E s \in Synchs : CallWLock(t, s)
  \/ WLock(t)
  \/ \E r \in RawMutexes : CallLockRaw(t, r)
  \/ LockRaw(t)
  \/ \E s \in Synchs : TryWLock(t, s)
  \/ \E s \in Synchs, f \in TimedForms : CallTryWLockTimed(t, s, f)
  \/ TimedWLock(t)
  \/ Timeout(t)
  \/ \E g \in guards[t] : Destroy(t, g)

CoordNext == \E t \in Threads : CoordStep(t)

CoordSpec == Init /\ [][CoordNext]_vars

\* Copy and move construction and assignment of synch objects, next to
\* threads that lock the same objects and write through their guards.
CopyStep(t) ==
  \/ \E o \in {"copy_ctor", "move_ctor"}, n \in New, src \in Synchs :
       CallConstruct(t, o, n, src)
  \/ ConstructLock(t)
  \/ ConstructInit(t)
  \/ ConstructDone(t)
  \/ \E dst \in Synchs, src \in Synchs : CallCopyAssign(t, dst, src)
  \/ CopyAssignLockThis(t)
  \/ CopyAssignRLockOther(t)
  \/ CopyAssignAssign(t)
  \/ CopyAssignUnlockOther(t)
  \/ CopyAssignUnlockThis(t)
  \/ \E dst \in Synchs, src \in Synchs : CallMoveAssign(t, dst, src)
  \/ LockAllBlock(t)
  \/ LockAllTry(t)
  \/ LockAllBackoff(t)
  \/ MoveAssignAssign(t)
  \/ MoveAssignRelease(t)
  \/ \E s \in Synchs : CallRLock(t, s)
  \/ RLock(t)
  \/ \E s \in Synchs : CallWLock(t, s)
  \/ WLock(t)
  \/ \E g \in guards[t] : Destroy(t, g)
  \/ \E g \in guards[t] : Read(t, g)
  \/ \E g \in guards[t], v \in Val : Write(t, g, v)

CopyNext == \E t \in Threads : CopyStep(t)

CopySpec == Init /\ [][CopyNext]_vars

\* A blocking multi-resource wlock against another one on the same resources
\* and against readers that take and release their guards; every thread that
\* can run eventually does (weak fairness of each step of each thread).
LiveArgs == {<<"s1", "s2">>, <<"s2", "s1">>}

LiveStep(t) ==
  \/ \E a \in LiveArgs : CallWLockN(t, a)
  \/ LockAllBlock(t)
  \/ LockAllTry(t)
  \/ LockAllBackoff(t)
  \/ \E s \in Synchs : CallRLock(t, s)
  \/ RLock(t)
  \/ \E g \in guards[t] : Destroy(t, g)

LiveNext == \E t \in Threads : LiveStep(t)

LiveSpec ==
  /\ Init
  /\ [][LiveNext]_vars
  /\ \A t \in Threads :
       /\ WF_vars(LockAllBlock(t))
       /\ WF_vars(LockAllTry(t))
       /\ WF_vars(LockAllBackoff(t))
       /\ WF_vars(RLock(t))
       /\ WF_vars(\E g \in guards[t] : Destroy(t, g))

\* The life of guard objects: threads lock, move-construct and move-assign
\* their guards and destroy them in any order.
GuardStep(t) ==
  \/ \E s \in Synchs : HasFreeObj(t, s) /\ CallRLock(t, s)
  \/ RLock(t)
  \/ \E s \in Synchs : HasFreeObj(t, s) /\ CallWLock(t, s)
  \/ WLock(t)
  \/ \E g \in guards[t] : MoveConstruct(t, g)
  \/ \E g \in guards[t], other \in guards[t] : MoveAssign(t, g, other)
  \/ \E g \in guards[t] : Destroy(t, g)

GuardNext == \E t \in Threads : GuardStep(t)

GuardSpec == Init /\ [][GuardNext]_vars

\* The non-blocking calls, single and multi-resource, against threads that
\* hold read guards, write guards and direct locks on the raw mutex.
TryStep(t) ==
  \/ \E s \in Synchs : TryRLock(t, s)
  \/ \E s \in Synchs : TryWLock(t, s)
  \/ \E a \in ArgLists : CallTryWLockN(t, a)
  \/ TryLockAllTry(t)
  \/ TryLockAllUnwind(t)
  \/ \E s \in Synchs : CallRLock(t, s)
  \/ RLock(t)
  \/ \E s \in Synchs : CallWLock(t, s)
  \/ WLock(t)
  \/ \E r \in RawMutexes : CallLockRaw(t, r)
  \/ LockRaw(t)
  \/ \E g \in guards[t] : Destroy(t, g)

TryNext == \E t \in Threads : TryStep(t)

TrySpec == Init /\ [][TryNext]_vars

\* Move assignments between the two synchs in both directions; every thread
\* that can run eventually does (weak fairness of each step of each thread).
MoveLiveStep(t) ==
  \/ \E dst \in Synchs, src \in Synchs : dst # src /\ CallMoveAssign(t, dst, src)
  \/ LockAllBlock(t)
  \/ LockAllTry(t)
  \/ LockAllBackoff(t)
  \/ MoveAssignAssign(t)
  \/ MoveAssignRelease(t)

MoveLiveNext == \E t \in Threads : MoveLiveStep(t)

MoveLiveSpec ==
  /\ Init
  /\ [][MoveLiveNext]_vars
  /\ \A t \in Threads :
       /\ WF_vars(LockAllBlock(t))
       /\ WF_vars(LockAllTry(t))
       /\ WF_vars(LockAllBackoff(t))
       /\ WF_vars(MoveAssignAssign(t))
       /\ WF_vars(MoveAssignRelease(t))

\* Whether a member function of synch<T, M> instantiates for the primitive
\* type M: the proxy_mutex function it calls must find the member of M it
\* forwards to.
Instantiates(op, M) ==
  CASE op \in {"rlock", "wlock"} -> basic_lockable(M)
    [] op = "try_rlock" -> shared_lockable(M) \/ "try_lock" \in Members(M)
    [] op = "try_wlock" -> "try_lock" \in Members(M)
    [] op = "try_rlock_for" ->
         shared_timed_lockable(M) \/ "try_lock_for" \in Members(M)
    [] op = "try_rlock_until" ->
         shared_timed_lockable(M) \/ "try_lock_until" \in Members(M)
    [] op = "try_wlock_for" -> "try_lock_for" \in Members(M)
    [] op = "try_wlock_until" -> "try_lock_until" \in Members(M)

\* Threads that set, clear and toggle the flags of one atomic_flags object.
FlagStep(t) ==
  \/ \E a \in AtomicFlags, f \in Words : CallSet(t, a, f)
  \/ Set(t)
  \/ \E a \in AtomicFlags, f \in Words : CallClear(t, a, f)
  \/ Clear(t)
  \/ \E a \in AtomicFlags : CallClearAll(t, a)
  \/ ClearAll(t)
  \/ \E a \in AtomicFlags, f \in Words : CallToggle(t, a, f)
  \/ Toggle(t)

FlagNext == \E t \in Threads : FlagStep(t)

FlagSpec == Init /\ [][FlagNext]_vars

\* The synchs of the primitive types: the cells and one shared_timed_mutex.
Shaped == Cells \cup {"s1"}
\* The synchs on which op instantiates.
ShapedFor(op) == {s \in Shaped : Instantiates(op, MutexType(s))}

\* Read and write acquisition in every variant on a synch of each primitive
\* type, one guard at a time per thread.
ShapeStep(t) ==
  \/ \E s \in ShapedFor("rlock") : guards[t] = {} /\ CallRLock(t, s)
  \/ RLock(t)
  \/ \E s \in ShapedFor("try_rlock") : guards[t] = {} /\ TryRLock(t, s)
  \/ \E f \in TimedForms : \E s \in ShapedFor("try_rlock_" \o f) :
       guards[t] = {} /\ CallTryRLockTimed(t, s, f)
  \/ TimedRLock(t)
  \/ Timeout(t)
  \/ \E s \in ShapedFor("wlock") : guards[t] = {} /\ CallWLock(t, s)
  \/ WLock(t)
  \/ \E s \in ShapedFor("try_wlock") : guards[t] = {} /\ TryWLock(t, s)
  \/ \E f \in TimedForms : \E s \in ShapedFor("try_wlock_" \o f) :
       guards[t] = {} /\ CallTryWLockTimed(t, s, f)
  \/ TimedWLock(t)
  \/ \E g \in guards[t] : Destroy(t, g)

ShapeNext == \E t \in Threads : ShapeStep(t)

ShapeSpec == Init /\ [][ShapeNext]_vars

\* ------------------------------------------------------------------ claims
IsSynchGuard(g) == g.kind = "synch_lock_guard" /\ g.mutex_ # Null
\* Thread t holds primitive r, exclusively or shared.
HoldsPrim(t, r) == mtx[r].excl = t \/ t \in mtx[r].shared
InCoordCall(t) == pc[t].op \in {"wlockN", "try_wlockN"}
\* The primitives of its argument list a coordinator call of t holds.
HeldByCall(t) == {r \in Range(pc[t].args) : mtx[r].excl = t}

\* C1: while a thread holds a write guard on a synch, whichever call produced
\* it, no other guard, read or write, exists on that synch.
C1_WriteExclusion ==
  \A t \in Threads : \A g \in guards[t] :
    (IsSynchGuard(g) /\ ~g.const) =>
      \A u \in Threads : \A h \in guards[u] :
        (IsSynchGuard(h) /\ h.mutex_ = g.mutex_) => (u = t /\ h = g)

\* A write guard from the multi-resource wlock is live while another thread
\* is inside wlock() or try_wlock_for() on the same synch.
C1_Witness ==
  \E t \in Threads, u \in Threads :
    /\ t # u
    /\ ret[t].op = "wlockN" /\ ret[t].ok
    /\ pc[u].op \in {"wlock", "rlock", "try_wlock_for"}
    /\ pc[u].r \in Range(ret[t].args)

\* C2: every access to a protected value, through a guard or inside copy/move
\* construction and assignment, is made by a thread that holds the synch's
\* primitive: exclusively for a write, exclusively or shared for a read.
C2_AccessUnderLock ==
  \A a \in acc :
    IF a.w THEN mtx[a.s].excl = a.t
    ELSE mtx[a.s].excl = a.t \/ a.t \in mtx[a.s].shared

\* A copy assignment has just read its source and written its destination
\* while another thread holds a read guard on the source.
C2_Witness ==
  \E t \in Threads, u \in Threads :
    /\ t # u
    /\ pc[t].op = "copy_assign" /\ pc[t].phase = "unlock_other"
    /\ acc = {Access(t, pc[t].src, FALSE), Access(t, pc[t].dst, TRUE)}
    /\ rlock_guard(pc[t].src) \in guards[u]

\* C3: with a shared-capable primitive a thread inside rlock() is held up only
\* by a write guard on that synch, never by read guards.
C3_SharedReads ==
  \A t \in Threads :
    (/\ pc[t].op = "rlock"
     /\ basic_shared_lockable(MutexType(pc[t].r))
     /\ ~ENABLED RLock(t))
    => \E u \in Threads \ {t} : \E g \in guards[u] :
         IsSynchGuard(g) /\ g.mutex_ = pc[t].r /\ ~g.const

\* Two read guards on one synch are live at once, one of them taken while the
\* other was already held.
C3_Witness ==
  \E t \in Threads, u \in Threads, s \in Synchs :
    /\ t # u
    /\ rlock_guard(s) \in guards[t]
    /\ rlock_guard(s) \in guards[u]
    /\ ret[u].op = "rlock" /\ ret[u].args = <<s>>

\* C4: two threads that hold nothing else and are both inside the blocking
\* multi-resource wlock on the same resources are never stuck: one of them
\* can always take its next step.
C4_NoDeadlock ==
  \A t \in Threads, u \in Threads :
    (/\ t # u
     /\ pc[t].op = "wlockN" /\ pc[u].op = "wlockN"
     /\ Range(pc[t].args) = Range(pc[u].args)
     /\ guards[t] = {} /\ guards[u] = {})
    => \/ ENABLED (LockAllBlock(t) \/ LockAllTry(t) \/ LockAllBackoff(t))
       \/ ENABLED (LockAllBlock(u) \/ LockAllTry(u) \/ LockAllBackoff(u))

\* wlock(a, b) and wlock(b, a) run at once, each holding one of the two
\* primitives.
C4_Witness ==
  \E t \in Threads, u \in Threads :
    /\ t # u
    /\ pc[t].op = "wlockN" /\ pc[u].op = "wlockN"
    /\ Len(pc[t].args) = 2
    /\ pc[u].args = <<pc[t].args[2], pc[t].args[1]>>
    /\ guards[t] = {} /\ guards[u] = {}
    /\ mtx[pc[t].args[1]].excl = t
    /\ mtx[pc[t].args[2]].excl = u

NoMoreCalls(u) == pc[u].op # "wlockN" /\ ops[u] = MaxOps

C6_AllHeldOnReturn ==
  \A t \in Threads :
    (ret[t].op = "wlockN") =>
      /\ ret[t].ok
      /\ \A r \in Range(ret[t].args) :
           /\ mtx[r] = [excl |-> t, shared |-> {}]
           /\ \A u \in Threads \ {t} : r \notin HeldRes(u)

\* wlock(s1, s2, m) returned after it had to wait for another thread's guard.
C6_Witness ==
  \E t \in Threads :
    /\ ret[t].op = "wlockN" /\ Len(ret[t].args) = 3
    /\ ret[t].first # 1
    /\ \E u \in Threads \ {t} : ops[u] > 0 /\ pc[u] = Idle

\* C7 as claimed: no other thread observes a coordinator call holding some but
\* not all of its primitives: a single try_wlock never fails on a primitive
\* held by a call that does not hold all the primitives of its list.
C7_NeverPartial ==
  [][\A u \in Threads, s \in Synchs :
       (TryWLock(u, s) /\ ~ret'[u].ok) =>
         \A t \in Threads \ {u} :
           (InCoordCall(t) /\ mtx[s].excl = t)
             => HeldByCall(t) = Range(pc[t].args)]_vars

\* C7 amended: partial acquisition is confined to the running part of a call.
\* A blocking wlock that is suspended in lock() holds none of its primitives;
\* one that has returned holds all of them; a try_wlock that has returned
\* empty holds none.
C7_AllOrNothingAtRest ==
  \A t \in Threads :
    /\ (pc[t].op = "wlockN" /\ pc[t].phase = "lock") => HeldByCall(t) = {}
    /\ (ret[t].op \in {"wlockN", "try_wlockN"} /\ ret[t].ok)
         => \A r \in Range(ret[t].args) : mtx[r].excl = t
    /\ (ret[t].op = "try_wlockN" /\ ~ret[t].ok)
         => \A r \in Range(ret[t].args) : ~HoldsPrim(t, r)

\* A call is suspended in lock() after backing off, on another position than
\* the first.
C7_Witness ==
  \E t \in Threads :
    /\ pc[t].op = "wlockN" /\ pc[t].phase = "lock" /\ pc[t].i # 1
    /\ ~M_lock(mtx[pc[t].args[pc[t].i]], t).ok

\* C8: try_wlock takes the primitives in the order given; it returns either
\* N handles with all N primitives held by the caller, or nothing, and then
\* the caller holds none of the N primitives.
C8_TryAllOrNothing ==
  \A t \in Threads :
    /\ (pc[t].op = "try_wlockN" /\ pc[t].phase = "try")
         => HeldByCall(t) = {pc[t].args[j] : j \in 1..pc[t].k}
    /\ (ret[t].op = "try_wlockN" /\ ret[t].ok)
         => /\ Len(ret[t].handles) = Len(ret[t].args)
            /\ \A r \in Range(ret[t].args) : mtx[r] = [excl |-> t, shared |-> {}]
    /\ (ret[t].op = "try_wlockN" /\ ~ret[t].ok)
         => /\ ret[t].handles = <<>>
            /\ \A r \in Range(ret[t].args) : ~HoldsPrim(t, r)
            /\ Range(ret[t].args) \cap HeldRes(t) = {}

\* try_wlock returned empty after it had taken and released two primitives:
\* all three are unlocked again.
C8_Witness ==
  \E t \in Threads :
    /\ ret[t].op = "try_wlockN" /\ ~ret[t].ok
    /\ Len(ret[t].args) = 3
    /\ \A j \in 1..2 : mtx[ret[t].args[j]] = Unlocked
    /\ \E u \in Threads \ {t} : HoldsPrim(u, ret[t].args[3])

\* Primitive r is held by a thread other than t.
BusyFor(t, r) == \E u \in Threads \ {t} : HoldsPrim(u, r)

\* C9: in the pass of try_wlock a primitive that is free is taken, and taking
\* the last one returns the N handles; a primitive held by another thread,
\* be it by a reader, a writer or a plain lock, ends the pass, which returns
\* empty once the locks taken are released.
C9_TryOutcome ==
  [][\A t \in Threads :
       /\ (pc[t].op = "try_wlockN" /\ pc[t].phase = "try" /\ pc'[t] # pc[t]) =>
            LET r == pc[t].args[pc[t].k + 1]
                last == pc[t].k + 1 = Len(pc[t].args)
            IN IF BusyFor(t, r)
               THEN /\ mtx' = mtx
                    /\ IF pc[t].k = 0
                       THEN ret'[t].op = "try_wlockN" /\ ~ret'[t].ok
                       ELSE pc'[t].op = "try_wlockN" /\ pc'[t].phase = "unwind"
               ELSE /\ mtx'[r].excl = t
                    /\ IF last
                       THEN /\ ret'[t].op = "try_wlockN" /\ ret'[t].ok
                            /\ Len(ret'[t].handles) = Len(pc[t].args)
                       ELSE pc'[t].op = "try_wlockN" /\ pc'[t].phase = "try"
       /\ (pc[t].op = "try_wlockN" /\ pc[t].phase = "unwind" /\ pc'[t].op = "idle")
            => ret'[t].op = "try_wlockN" /\ ~ret'[t].ok]_vars

\* try_wlock(s1, s2, m) returned empty while the only holder of any of its
\* resources was a reader of s1.
C9_Witness ==
  \E t \in Threads, u \in Threads :
    /\ t # u
    /\ ret[t].op = "try_wlockN" /\ ~ret[t].ok
    /\ ret[t].args = <<"s1", "s2", "m">>
    /\ guards[u] = {rlock_guard("s1")}
    /\ mtx["s2"] = Unlocked /\ mtx["m"] = Unlocked

\* C10: the collection wlock / try_wlock returns has one handle per argument;
\* the i-th handle is on the i-th argument: a write guard for a synch, the
\* lock adapter for a raw mutex.
C10_ResultOrder ==
  \A t \in Threads :
    (ret[t].op \in {"wlockN", "try_wlockN"} /\ ret[t].ok) =>
      /\ Len(ret[t].handles) = Len(ret[t].args)
      /\ \A i \in DOMAIN ret[t].args :
           LET r == ret[t].args[i]
               h == ret[t].handles[i]
           IN /\ h.mutex_ = r
              /\ IF r \in Synchs
                 THEN h.kind = "synch_lock_guard" /\ ~h.const /\ h.value_ = r
                 ELSE h.kind = "unique_lock"
              /\ h \in guards[t]

\* wlock(s1, s2, m) returned after a round that locked the third argument
\* first.
C10_Witness ==
  \E t \in Threads :
    /\ ret[t].op = "wlockN" /\ ret[t].ok
    /\ ret[t].args = <<"s1", "s2", "m">>
    /\ ret[t].first = 3

\* C11: a thread holds a primitive exactly when one of its guard objects
\* points at it, whatever moves the guards went through; a move, an
\* overwriting or a destruction releases a primitive exactly when the pointer
\* to it disappears from the thread's guards, at most one at a time, so move
\* construction and the destruction of an empty guard release nothing and no
\* lock is released twice.
C11_ExactlyOnceRelease ==
  /\ [](\A t \in Threads, r \in AllRes :
         Cardinality({g \in guards[t] : g.mutex_ = r})
           = IF HoldsPrim(t, r) THEN 1 ELSE 0)
  /\ [][\A t \in Threads :
         (pc[t] = Idle /\ pc'[t] = Idle /\ guards'[t] # guards[t]) =>
           LET dropped == ({g.mutex_ : g \in guards[t]}
                             \ {g.mutex_ : g \in guards'[t]}) \ {Null}
           IN /\ Cardinality(dropped) <= 1
              /\ \A r \in AllRes :
                   IF r \in dropped
                   THEN HoldsPrim(t, r) /\ ~HoldsPrim(t, r)'
                   ELSE mtx'[r] = mtx[r]]_vars

\* A thread is left with two empty guards and one live guard that went
\* through a move construction and a move assignment, the lock the assigned
\* guard held before being free again.
C11_Witness ==
  \E t \in Threads, s \in Synchs, r \in Synchs :
    /\ s # r
    /\ \E g \in guards[t] : g.mutex_ = s /\ g.obj = <<r, 2>> /\ ~g.const
    /\ Cardinality({g \in guards[t] : g.mutex_ = Null}) >= 2
    /\ mtx[s].excl = t
    /\ mtx[r] = Unlocked

\* C12: a live read guard releases with the shared unlock exactly when its
\* thread holds the primitive shared, and with the exclusive unlock exactly
\* when the thread holds it exclusively, for every primitive type and every
\* read-acquisition variant; a write guard's thread holds the primitive
\* exclusively and the guard releases with the exclusive unlock.
C12_ReleaseMirrorsAcquire ==
  \A t \in Threads : \A g \in guards[t] :
    IsSynchGuard(g) =>
      LET m == mtx[g.mutex_] IN
        IF g.const
        THEN /\ SharedRelease(g) <=> t \in m.shared
             /\ ~SharedRelease(g) <=> m.excl = t
        ELSE m.excl = t /\ unlock(g, m, t) = M_unlock(m)

\* Thread t has a live write guard on synch s.
HasWriteGuard(t, s) ==
  \E g \in guards[t] : IsSynchGuard(g) /\ g.mutex_ = s /\ ~g.const

\* C13: a rlock() or wlock() call on a synch returns only in a state where no
\* other thread has a write guard on that synch, and it returns with the
\* value untouched; the value of a synch changes only in a write through a
\* write guard of the writing thread.  So the caller that waited behind a
\* writer finds the value that writer left.
C13_BlockedBehindWriter ==
  [][\A b \in Threads :
       /\ (pc[b].op \in {"rlock", "wlock"} /\ pc'[b] = Idle) =>
            /\ \A a \in Threads \ {b} : ~HasWriteGuard(a, pc[b].r)
            /\ \E g \in guards'[b] : IsSynchGuard(g) /\ g.mutex_ = pc[b].r
            /\ value' = value
       /\ \A s \in Synchs :
            (value'[s] # value[s] /\ ~HasWriteGuard(b, s)) =>
              \E a \in Threads \ {b} :
                HasWriteGuard(a, s) /\ acc' = {Access(a, s, TRUE)}]_vars

\* A thread is held up inside rlock() by the write guard of another thread,
\* which has just written a new value through it.
C13_Witness ==
  \E a \in Threads, b \in Threads, s \in Synchs :
    /\ a # b
    /\ HasWriteGuard(a, s)
    /\ acc = {Access(a, s, TRUE)} /\ value[s] # 0
    /\ pc[b].op = "rlock" /\ pc[b].r = s
    /\ ~ENABLED RLock(b)

\* Some thread other than t has a live guard on synch s.
GuardOutstanding(t, s) ==
  \E u \in Threads \ {t} : \E g \in guards[u] : IsSynchGuard(g) /\ g.mutex_ = s

\* C14: try_wlock() (wlock(std::try_to_lock) is the same call) returns absent
\* exactly when another thread has a guard, read or write, on the synch, and
\* otherwise a live write guard; try_rlock() on the shared-capable primitive
\* returns absent exactly when another thread has a write guard, so it
\* succeeds while only read guards are outstanding.
C14_SingleTry ==
  [][\A t \in Threads :
       (pc[t] = Idle /\ pc'[t] = Idle /\ ops'[t] # ops[t]) =>
         LET s == ret'[t].args[1] IN
           /\ ret'[t].op = "try_wlock" =>
                /\ ret'[t].ok <=> ~GuardOutstanding(t, s)
                /\ ret'[t].ok => (wlock_guard(s) \in guards'[t] /\ mtx'[s].excl = t)
                /\ ~ret'[t].ok => (guards'[t] = guards[t] /\ mtx' = mtx)
           /\ ret'[t].op = "try_rlock" =>
                /\ ret'[t].ok <=> \A u \in Threads \ {t} : ~HasWriteGuard(u, s)
                /\ ret'[t].ok => (rlock_guard(s) \in guards'[t] /\ t \in mtx'[s].shared)]_vars

\* try_wlock() has returned absent to a thread while the only outstanding
\* guard on the synch is a read guard of the other thread.
C14_Witness ==
  \E t \in Threads, u \in Threads, s \in Synchs :
    /\ t # u
    /\ ret[t].op = "try_wlock" /\ ret[t].args = <<s>> /\ ~ret[t].ok
    /\ rlock_guard(s) \in guards[u]
    /\ mtx[s] = [excl |-> NoThread, shared |-> {u}]

\* The number of steps a multi-resource try_wlock in frame f has left at most.
StepsLeft(f) == IF f.phase = "try" THEN 2 * Len(f.args) - f.k ELSE f.k

\* C15: try_rlock, try_wlock and the multi-resource try_wlock can take their
\* next step in every lock state; the multi-resource call is done within
\* twice as many steps as it has arguments; a failed call returns the absent
\* result with no handle; a failed single call changes no primitive, a
\* failed multi-resource call leaves the caller holding none of its
\* primitives, and no step of a call touches what other threads hold.
C15_NonBlockingTry ==
  /\ [](\A t \in Threads :
         /\ \A s \in Synchs :
              CanStart(t, {s}) => ENABLED TryRLock(t, s) /\ ENABLED TryWLock(t, s)
         /\ pc[t].op = "try_wlockN" =>
              ENABLED (TryLockAllTry(t) \/ TryLockAllUnwind(t)))
  /\ [][\A t \in Threads :
         /\ (pc[t].op = "try_wlockN" /\ pc'[t] # pc[t]) =>
              /\ pc'[t].op = "try_wlockN" =>
                   (StepsLeft(pc'[t]) < StepsLeft(pc[t]) /\ StepsLeft(pc'[t]) > 0)
              /\ \A r \in AllRes :
                   mtx'[r] # mtx[r] =>
                     /\ mtx'[r].shared = mtx[r].shared
                     /\ {mtx[r].excl, mtx'[r].excl} = {NoThread, t}
         /\ (ret'[t] # ret[t]
               /\ ret'[t].op \in {"try_rlock", "try_wlock", "try_wlockN"}
               /\ ~ret'[t].ok) =>
              /\ ret'[t].handles = <<>>
              /\ guards'[t] = guards[t]
              /\ ret'[t].op # "try_wlockN" => mtx' = mtx
              /\ \A r \in Range(ret'[t].args) : ~HoldsPrim(t, r)']_vars

\* A multi-resource try_wlock holds its first primitive and is about to try
\* one that another thread holds.
C15_Witness ==
  \E t \in Threads :
    /\ pc[t].op = "try_wlockN" /\ pc[t].phase = "try" /\ pc[t].k = 1
    /\ BusyFor(t, pc[t].args[2])
    /\ mtx[pc[t].args[1]].excl = t

\* Thread t is waiting inside try_wlock_for / try_wlock_until.
InTimedWLock(t) == pc[t].op \in {"try_wlock_for", "try_wlock_until"}

\* C16: try_wlock_for / try_wlock_until returns a live write guard only from
\* a state where no other thread holds the synch's primitive, and returns
\* absent only from a state where a contender holds it, the bound elapsing;
\* while the call waits, the guard can be returned exactly when the contender
\* has released and the absent result exactly when it has not; after an
\* absent result the caller holds nothing of the synch.
C16_TimedAcquisition ==
  /\ [](\A t \in Threads :
         InTimedWLock(t) =>
           /\ ~HoldsPrim(t, pc[t].r)
           /\ ENABLED TimedWLock(t) <=> ~BusyFor(t, pc[t].r)
           /\ ENABLED Timeout(t) <=> BusyFor(t, pc[t].r))
  /\ [][\A t \in Threads :
         (ret'[t] # ret[t] /\ ret'[t].op \in {"try_wlock_for", "try_wlock_until"}) =>
           LET s == ret'[t].args[1] IN
             IF ret'[t].ok
             THEN /\ ~BusyFor(t, s)
                  /\ wlock_guard(s) \in guards'[t]
                  /\ mtx'[s] = [excl |-> t, shared |-> {}]
             ELSE /\ BusyFor(t, s)
                  /\ InTimedWLock(t)
                  /\ ret'[t].handles = <<>>
                  /\ mtx' = mtx /\ guards' = guards
                  /\ mtx'[s].excl # t /\ t \notin mtx'[s].shared]_vars

\* try_wlock_for has returned absent to a thread while the other thread
\* still has its read guard on the synch.
C16_Witness ==
  \E t \in Threads, u \in Threads, s \in Synchs :
    /\ t # u
    /\ ret[t].op = "try_wlock_for" /\ ret[t].args = <<s>> /\ ~ret[t].ok
    /\ rlock_guard(s) \in guards[u]
    /\ guards[t] = {}

\* C17: a copy assignment never waits for the lock of its source while it
\* already holds the lock of its destination.
C17_CopyAssignLocksAtOnce ==
  \A t \in Threads :
    ~(/\ pc[t].op = "copy_assign"
      /\ pc[t].phase = "rlock_other"
      /\ mtx[pc[t].dst].excl = t
      /\ ~ENABLED CopyAssignRLockOther(t))

\* C18 as claimed: every move assignment between distinct synchs completes,
\* also next to the opposite move assignment running in another thread.
C18_BothComplete ==
  \A t \in Threads : (pc[t].op = "move_assign") ~> (pc[t] = Idle)

\* Thread u is not inside a move assignment and starts no further operation.
NoMoreMoves(u) == pc[u].op # "move_assign" /\ ops[u] = MaxOps

\* C18 amended: a move assignment moves the value only while its thread holds
\* both primitives exclusively; two threads inside opposite move assignments
\* are never both stuck; and a move assignment completes once no other
\* thread is, or will be, inside a move assignment.
C18_MoveAssignNoDeadlock ==
  /\ [](\A t \in Threads :
         (pc[t].op = "move_assign" /\ pc[t].phase = "assign") =>
           \A r \in Range(pc[t].args) : mtx[r] = [excl |-> t, shared |-> {}])
  /\ [](\A t \in Threads, u \in Threads :
         (t # u /\ pc[t].op = "move_assign" /\ pc[u].op = "move_assign") =>
           \/ ENABLED MoveLiveStep(t)
           \/ ENABLED MoveLiveStep(u))
  /\ \A t \in Threads :
       (pc[t].op = "move_assign" /\ \A u \in Threads \ {t} : NoMoreMoves(u))
         ~> (pc[t] = Idle)

\* a = std::move(b) and b = std::move(a) run at once, each thread holding the
\* primitive of its own destination.
C18_Witness ==
  \E t \in Threads, u \in Threads :
    /\ t # u
    /\ pc[t].op = "move_assign" /\ pc[u].op = "move_assign"
    /\ pc[u].args = <<pc[t].args[2], pc[t].args[1]>>
    /\ mtx[pc[t].args[1]].excl = t
    /\ mtx[pc[u].args[1]].excl = u

\* Thread t is inside the copy assignment to dst, between taking the lock of
\* dst and releasing it.
CopyAssigning(t, dst) ==
  /\ pc[t].op = "copy_assign" /\ pc[t].dst = dst
  /\ pc[t].phase \in {"rlock_other", "assign", "unlock_other", "unlock_this"}

\* C19: from the moment a copy assignment has locked its destination until
\* it unlocks it, no guard on the destination is live, no other thread holds
\* the destination's primitive or accesses its value, and the one change the
\* assignment makes to the destination gives it the whole value of the
\* source; a guard taken on the destination before or after therefore shows
\* the old or the new value.
C19_CopyAssignNotPartial ==
  /\ [](\A t \in Threads, dst \in Synchs :
         CopyAssigning(t, dst) =>
           /\ mtx[dst] = [excl |-> t, shared |-> {}]
           /\ \A u \in Threads : \A g \in guards[u] : g.mutex_ # dst
           /\ \A a \in acc : a.s = dst => a.t = t)
  /\ [][\A t \in Threads, dst \in Synchs :
         (CopyAssigning(t, dst) /\ value'[dst] # value[dst]) =>
           /\ pc[t].phase = "assign"
           /\ value'[dst] = value[pc[t].src]
           /\ value'[pc[t].src] = value[pc[t].src]]_vars

\* A copy assignment has just overwritten its destination while the other
\* thread waits inside rlock() on the destination.
C19_Witness ==
  \E t \in Threads, u \in Threads :
    /\ t # u
    /\ pc[t].op = "copy_assign" /\ pc[t].phase = "unlock_other"
    /\ Access(t, pc[t].dst, TRUE) \in acc
    /\ value[pc[t].dst] # 0
    /\ pc[u].op = "rlock" /\ pc[u].r = pc[t].dst

\* The last call of thread t was a copy or move assignment of a synch to
\* itself.
SelfAssigned(t) ==
  /\ ret[t].op \in {"copy_assign", "move_assign"}
  /\ ret[t].args[1] = ret[t].args[2]

\* C20: a copy or move assignment of a synch to itself can be made in every
\* lock state of the synch that the caller does not itself hold, returns in
\* the step in which it is called, and changes no primitive, value or
\* guard; no thread is ever inside an assignment whose source is its
\* destination.
C20_SelfAssignNoOp ==
  /\ [](\A t \in Threads :
         /\ pc[t].op = "copy_assign" => pc[t].dst # pc[t].src
         /\ pc[t].op = "move_assign" => pc[t].args[1] # pc[t].args[2]
         /\ \A s \in Synchs :
              CanStart(t, {s}) =>
                ENABLED CallCopyAssign(t, s, s) /\ ENABLED CallMoveAssign(t, s, s))
  /\ [][\A t \in Threads :
         (ret'[t] # ret[t] /\ SelfAssigned(t)') =>
           /\ pc[t] = Idle
           /\ mtx' = mtx /\ value' = value /\ guards' = guards]_vars

\* A synch was assigned to itself, and the call returned, while the other
\* thread holds a write guard on it.
C20_Witness ==
  \E t \in Threads, u \in Threads :
    /\ t # u
    /\ SelfAssigned(t)
    /\ HasWriteGuard(u, ret[t].args[1])

\* Thread t is inside a copy construction or copy assignment and holds the
\* read lock it took on the source.
CopyHoldsSource(t) ==
  \/ pc[t].op = "copy_ctor" /\ pc[t].phase \in {"init", "done"}
  \/ pc[t].op = "copy_assign" /\ pc[t].phase \in {"assign", "unlock_other"}

\* C21: a copy construction or copy assignment gets past the lock of its
\* source only in a state where no other thread has a write guard on the
\* source; as long as it holds that lock no other thread has such a guard and
\* the source's value does not change; the step that copies leaves the
\* destination and the source with the value the source had, which is the
\* value the last writer left; and the call returns only after that step.
C21_CopyWaitsForWriter ==
  /\ [](\A t \in Threads :
         CopyHoldsSource(t) =>
           /\ HoldsPrim(t, pc[t].src)
           /\ \A u \in Threads \ {t} : ~HasWriteGuard(u, pc[t].src))
  /\ [][\A t \in Threads :
         /\ (pc[t].op \in {"copy_ctor", "copy_assign"} /\ ~CopyHoldsSource(t)
               /\ CopyHoldsSource(t)') =>
              \A u \in Threads \ {t} : ~HasWriteGuard(u, pc[t].src)
         /\ CopyHoldsSource(t) => value'[pc[t].src] = value[pc[t].src]
         /\ (CopyHoldsSource(t) /\ pc[t].phase \in {"init", "assign"}
               /\ pc'[t] # pc[t]) =>
              value'[pc[t].dst] = value[pc[t].src]
         /\ (pc[t].op \in {"copy_ctor", "copy_assign"} /\ pc'[t] = Idle) =>
              pc[t].phase \in {"done", "unlock_this"}]_vars

\* A copy assignment waits for the read lock of its source while the other
\* thread holds a write guard on the source and has just written through it.
C21_Witness ==
  \E t \in Threads, u \in Threads :
    /\ t # u
    /\ pc[t].op = "copy_assign" /\ pc[t].phase = "rlock_other"
    /\ HasWriteGuard(u, pc[t].src)
    /\ acc = {Access(u, pc[t].src, TRUE)} /\ value[pc[t].src] # 0
    /\ ~ENABLED CopyAssignRLockOther(t)

\* C22: the lock a copy construction or copy assignment takes on its source
\* is a read lock: whenever the call stands before that lock and no thread
\* holds the source's primitive exclusively, the lock step can be taken,
\* whatever read guards other threads have on the source; and while the call
\* holds the source it holds it shared, never exclusively.
C22_CopyReadLocksSource ==
  \A t \in Threads :
    /\ (pc[t].op = "copy_ctor" /\ pc[t].phase = "lock"
          /\ mtx[pc[t].src].excl = NoThread) => ENABLED ConstructLock(t)
    /\ (pc[t].op = "copy_assign" /\ pc[t].phase = "rlock_other"
          /\ mtx[pc[t].src].excl = NoThread) => ENABLED CopyAssignRLockOther(t)
    /\ CopyHoldsSource(t) =>
         /\ t \in mtx[pc[t].src].shared
         /\ mtx[pc[t].src].excl = NoThread
         /\ ENABLED CopyStep(t)

\* A copy assignment has copied the value of a source on which the other
\* thread holds a read guard all along.
C22_Witness ==
  \E t \in Threads, u \in Threads :
    /\ t # u
    /\ pc[t].op = "copy_assign" /\ pc[t].phase = "unlock_other"
    /\ rlock_guard(pc[t].src) \in guards[u]
    /\ mtx[pc[t].src].shared = {t, u}

\* The source of the move construction or move assignment thread t is in.
MoveSource(t) ==
  IF pc[t].op = "move_ctor" THEN pc[t].src ELSE pc[t].args[2]

\* Thread t is inside a move construction or move assignment, past the
\* acquisition of the source and not yet past the move of the value.
MoveHoldsSource(t) ==
  \/ pc[t].op = "move_ctor" /\ pc[t].phase \in {"init", "done"}
  \/ pc[t].op = "move_assign" /\ pc[t].phase = "assign"

\* C23: a move construction or move assignment holds its source exclusively
\* from the acquisition to the move of the value, so no other thread has a
\* guard of either kind on the source then; the move construction cannot get
\* past the acquisition while another thread holds the source in any mode;
\* the value is moved, and the call returns, only after the acquisition.
C23_MoveWriteLocksSource ==
  /\ [](\A t \in Threads :
         /\ MoveHoldsSource(t) =>
              /\ mtx[MoveSource(t)] = [excl |-> t, shared |-> {}]
              /\ \A u \in Threads \ {t} :
                   \A g \in guards[u] : g.mutex_ # MoveSource(t)
         /\ (pc[t].op = "move_ctor" /\ pc[t].phase = "lock"
               /\ \E u \in Threads \ {t} : HoldsPrim(u, pc[t].src)) =>
              ~ENABLED ConstructLock(t))
  /\ [][\A t \in Threads :
         /\ (pc[t].op \in {"move_ctor", "move_assign"}
               /\ acc' = IF pc[t].op = "move_ctor"
                         THEN {Access(t, pc[t].src, TRUE)}
                         ELSE {Access(t, pc[t].args[2], TRUE),
                               Access(t, pc[t].args[1], TRUE)}) =>
              MoveHoldsSource(t)
         /\ (pc[t].op \in {"move_ctor", "move_assign"} /\ pc'[t] = Idle) =>
              pc[t].phase \in {"done", "release"}]_vars

\* A move construction waits for the write lock of its source while the
\* other thread holds a read guard on the source.
C23_Witness ==
  \E t \in Threads, u \in Threads :
    /\ t # u
    /\ pc[t].op = "move_ctor" /\ pc[t].phase = "lock"
    /\ rlock_guard(pc[t].src) \in guards[u]
    /\ ~ENABLED ConstructLock(t)

\* The operations that copy or move a synch.
CopyMoveOps == {"copy_ctor", "move_ctor", "copy_assign", "move_assign"}

\* What the state m of a primitive records about threads other than t.
OthersHold(m, t) ==
  [excl |-> IF m.excl = t THEN NoThread ELSE m.excl, shared |-> m.shared \ {t}]

\* C24: a copy or move construction returns with the new object's primitive
\* unlocked and the source's primitive without the constructing thread,
\* whatever other threads hold on the source; a step of a copy or move
\* construction or assignment changes in no primitive what it records about
\* other threads, and the step that changes a value changes no primitive;
\* an assignment returns holding neither primitive, as it was called; and a
\* copy changes no value but the destination's, a move none but the
\* destination's and the source's.
C24_PrimitiveNotCopied ==
  [][\A t \in Threads :
       ((pc[t].op \in CopyMoveOps \/ pc'[t].op \in CopyMoveOps) /\ pc'[t] # pc[t]) =>
         LET f == IF pc[t].op \in CopyMoveOps THEN pc[t] ELSE pc'[t]
             dst == IF f.op = "move_assign" THEN f.args[1] ELSE f.dst
             src == IF f.op = "move_assign" THEN f.args[2] ELSE f.src
         IN /\ \A r \in AllRes :
                 \/ OthersHold(mtx'[r], t) = OthersHold(mtx[r], t)
                 \/ r = dst /\ mtx[r] = Unconstructed /\ mtx'[r] = Unlocked
            /\ value' # value => mtx' = mtx
            /\ \A s \in AllSynchs \ {dst} :
                 value'[s] # value[s] =>
                   s = src /\ f.op \in {"move_ctor", "move_assign"}
            /\ pc[t] = Idle => mtx' = mtx /\ ~HoldsPrim(t, dst) /\ ~HoldsPrim(t, src)
            /\ pc'[t] = Idle =>
                 /\ mtx'[src] = OthersHold(mtx[src], t)
                 /\ IF f.op \in {"copy_ctor", "move_ctor"}
                    THEN mtx[dst] = Unconstructed /\ mtx'[dst] = Unlocked
                    ELSE mtx'[dst] = OthersHold(mtx[dst], t)]_vars

\* A synch has been copy-constructed from a source on which the other thread
\* holds a read guard: the new primitive is unlocked, the source's is held.
C24_Witness ==
  \E t \in Threads, u \in Threads, n \in New :
    /\ t # u
    /\ ret[t].op = "copy_ctor" /\ ret[t].args[1] = n
    /\ rlock_guard(ret[t].args[2]) \in guards[u]
    /\ mtx[ret[t].args[2]] = [excl |-> NoThread, shared |-> {u}]
    /\ mtx[n] = Unlocked

\* The guards of every thread on synch s, each with its thread.
GuardsOn(s) ==
  {tg \in Threads \X UNION {guards[u] : u \in Threads} :
     tg[2] \in guards[tg[1]] /\ tg[2].mutex_ = s}

\* C25: on a synch whose primitive type has no lock_shared/unlock_shared, at
\* most one guard of either kind is live at any time, the thread of a live
\* guard holds the primitive exclusively, the primitive is never held
\* shared, and a rlock() call cannot return while a guard is live.
C25_ExclusiveOnlyFallback ==
  \A s \in Shaped :
    ~basic_shared_lockable(MutexType(s)) =>
      /\ Cardinality(GuardsOn(s)) <= 1
      /\ mtx[s].shared = {}
      /\ \A tg \in GuardsOn(s) : mtx[s].excl = tg[1]
      /\ \A u \in Threads :
           (pc[u].op = "rlock" /\ pc[u].r = s /\ GuardsOn(s) # {}) =>
             ~ENABLED RLock(u)

\* A thread holds a read guard on a synch over a primitive type that has
\* lock() and unlock() only, and the other thread waits inside rlock() on it.
C25_Witness ==
  \E t \in Threads, u \in Threads :
    /\ t # u
    /\ rlock_guard("basic_locable_mock") \in guards[t]
    /\ pc[u].op = "rlock" /\ pc[u].r = "basic_locable_mock"
    /\ ~ENABLED RLock(u)

\* Thread t holds a read guard on synch a and is inside wlock() on synch b.
ReadThenWrite(t, a, b) ==
  /\ rlock_guard(a) \in guards[t]
  /\ pc[t].op = "wlock" /\ pc[t].r = b

\* Two threads have locked two synchs by hand in opposite orders: each holds
\* a read guard on one and is inside wlock() on the other.
CrossLocked ==
  \E t \in Threads, u \in Threads, a \in Synchs, b \in Synchs :
    /\ t # u /\ a # b
    /\ ReadThenWrite(t, a, b)
    /\ ReadThenWrite(u, b, a)

\* C26: when one thread holds a read guard on m1 and is inside m2.wlock()
\* while another holds a read guard on m2 and is inside m1.wlock(), neither
\* wlock() can return and no step of any thread is possible: the two threads
\* stay blocked forever.
C26_ManualOrderDeadlock ==
  CrossLocked =>
    /\ \A t \in Threads : pc[t].op = "wlock" /\ ~ENABLED WLock(t)
    /\ ~ENABLED Next

\* The cross-locked state itself: thread t1 took m1.rlock() then m2.wlock(),
\* thread t2 took m2.rlock() then m1.wlock().
C26_Witness ==
  /\ ReadThenWrite("t1", "s1", "s2")
  /\ ReadThenWrite("t2", "s2", "s1")
  /\ mtx["s1"].shared = {"t1"} /\ mtx["s2"].shared = {"t2"}

\* Flag number i is set in word w.
HasFlag(w, i) == (w \div 2^i) % 2 = 1

\* Flag number i after operation o with argument f on a word where the flag
\* was set or not, as was says: set adds the flags of f, clear removes them,
\* toggle flips them, clear_all removes every flag.
FlagAfter(o, f, was, i) ==
  CASE o = "set" -> was \/ HasFlag(f, i)
    [] o = "clear" -> was /\ ~HasFlag(f, i)
    [] o = "toggle" -> was # HasFlag(f, i)
    [] o = "clear_all" -> FALSE

\* The word that operation call c leaves when it is applied to word w.
Applied(c, w) ==
  CHOOSE x \in Words :
    \A i \in 0..(FlagBits - 1) :
      HasFlag(x, i) <=> FlagAfter(c.op, c.args[2], HasFlag(w, i), i)

\* C27: the word of an atomic_flags object changes only in the one step that
\* completes a set, clear, toggle or clear_all call, and that step leaves,
\* flag by flag, the operation applied to the word as it was just before the
\* step; when each thread has made one call, the word is the result of the
\* two calls applied one after the other to the initial word in one of the
\* two orders; and when both calls were set, every flag of both arguments is
\* set.
C27_AtomicUpdates ==
  /\ [][\A a \in AtomicFlags :
         \/ value'[a] = value[a] /\ \A t \in Threads : pc'[t] # Idle \/ pc[t] = Idle
         \/ \E t \in Threads :
              /\ pc[t].op \in {"set", "clear", "toggle", "clear_all"}
              /\ pc[t].af = a /\ pc'[t] = Idle
              /\ \A u \in Threads \ {t} : pc'[u] = pc[u]
              /\ \A i \in 0..(FlagBits - 1) :
                   HasFlag(value'[a], i) <=>
                     FlagAfter(pc[t].op, pc[t].flags, HasFlag(value[a], i), i)]_vars
  /\ [](\A a \in AtomicFlags :
         (\A t \in Threads : pc[t] = Idle /\ ops[t] = 1) =>
           /\ \E t \in Threads, u \in Threads :
                t # u /\ value[a] = Applied(ret[u], Applied(ret[t], 0))
           /\ (\A t \in Threads : ret[t].op = "set") =>
                \A t \in Threads : \A i \in 0..(FlagBits - 1) :
                  HasFlag(ret[t].args[2], i) => HasFlag(value[a], i))

\* Each thread has made one call, set(A) in one and set(B) in the other with
\* different flags, the calls have returned and both flags are set.
C27_Witness ==
  /\ \A t \in Threads : pc[t] = Idle /\ ops[t] = 1 /\ ret[t].op = "set"
  /\ ret["t1"].args[2] = 1 /\ ret["t2"].args[2] = 2
  /\ value["flags"] = 3

\* Guard g2 of thread t is move-assigned from its guard g1 in this step: g2
\* has the pointers g1 had and g1 has none.
Assigned(t, g2, g1) ==
  /\ g1 # g2
  /\ g1.kind = "synch_lock_guard" /\ g2.kind = "synch_lock_guard"
  /\ guards'[t] = (guards[t] \ {g1, g2})
                    \cup {[g1 EXCEPT !.mutex_ = Null, !.value_ = Null],
                          [g2 EXCEPT !.mutex_ = g1.mutex_, !.value_ = g1.value_]}

\* C28: a step in which one of a thread's existing guard objects comes to
\* hold a lock is a move assignment g2 = std::move(g1) from a live guard: g1
\* is left empty, g2 points to the synch g1 pointed to, so that an access
\* through g2 reaches that synch; the primitive g2 held is no longer held by
\* the thread, the primitive g1 held is untouched and still held by the
\* thread, through g2 alone; no other primitive changes; and a thread all of
\* whose guards are empty or destroyed holds no primitive.
C28_GuardMoveAssign ==
  /\ [][\A t \in Threads :
         (pc[t] = Idle /\ pc'[t] = Idle
            /\ {g.obj : g \in guards'[t]} = {g.obj : g \in guards[t]}
            /\ \E h \in guards'[t] \ guards[t] : h.mutex_ # Null) =>
           \E g1 \in guards[t], g2 \in guards[t] :
             /\ Assigned(t, g2, g1)
             /\ g1.mutex_ # Null
             /\ g2.mutex_ # Null =>
                  /\ HoldsPrim(t, g2.mutex_) /\ ~HoldsPrim(t, g2.mutex_)'
                  /\ \A h \in guards'[t] : h.mutex_ # g2.mutex_
             /\ g1.mutex_ # Null =>
                  /\ HoldsPrim(t, g1.mutex_)
                  /\ mtx'[g1.mutex_] = mtx[g1.mutex_]
                  /\ {h \in guards'[t] : h.mutex_ = g1.mutex_}
                       = {[g2 EXCEPT !.mutex_ = g1.mutex_, !.value_ = g1.value_]}
                  /\ g1.value_ = g1.mutex_
             /\ \A r \in AllRes \ {g2.mutex_} : mtx'[r] = mtx[r]
             /\ value' = value]_vars
  /\ [](\A t \in Threads :
         (pc[t] = Idle /\ \A g \in guards[t] : g.mutex_ = Null) =>
           \A r \in AllRes : ~HoldsPrim(t, r))

\* cell2_guard = std::move(cell1_guard) has run on two write guards: the
\* guard object made on one synch now points to the other synch, whose
\* primitive the thread still holds, the guard object made there is empty,
\* and the primitive of the first synch is free.
C28_Witness ==
  \E t \in Threads, s \in Synchs, r \in Synchs :
    /\ s # r
    /\ [wlock_guard(r) EXCEPT !.mutex_ = s, !.value_ = s] \in guards[t]
    /\ exchange(wlock_guard(s)) \in guards[t]
    /\ mtx[s] = [excl |-> t, shared |-> {}]
    /\ mtx[r] = Unlocked

\* C29: a step in which an idle thread gets one more guard object is a move
\* construction from one of its guards g: no primitive and no value changes,
\* the new guard has the pointers g had, so that it dereferences to the same
\* value, g is left empty, and the new guard is then the only guard of the
\* thread on that primitive; a thread holds a synch's primitive exactly as
\* long as one of its guards points to it, so the lock goes when the new
\* guard is destroyed and not before.
C29_GuardMoveConstruct ==
  /\ [][\A t \in Threads :
         (pc[t] = Idle /\ pc'[t] = Idle
            /\ {g.obj : g \in guards'[t]} \ {g.obj : g \in guards[t]} # {}) =>
           \E g \in guards[t] :
             LET new == [g EXCEPT !.obj = <<g.obj[1], g.obj[2] + 1>>] IN
             /\ guards'[t] = (guards[t] \ {g})
                               \cup {[g EXCEPT !.mutex_ = Null, !.value_ = Null], new}
             /\ new.obj \notin {h.obj : h \in guards[t]}
             /\ mtx' = mtx /\ value' = value
             /\ g.mutex_ # Null =>
                  /\ HoldsPrim(t, g.mutex_)'
                  /\ {h \in guards'[t] : h.mutex_ = g.mutex_} = {new}
                  /\ new.value_ = g.mutex_]_vars
  /\ [](\A t \in Threads, s \in Synchs :
         HoldsPrim(t, s) <=> \E g \in guards[t] : g.mutex_ = s /\ g.value_ = s)

\* decltype(handle) handle2(std::move(handle)) has run on a write guard: the
\* new guard object points to the synch, the old one is empty, and the
\* thread holds the synch's primitive exclusively.
C29_Witness ==
  \E t \in Threads, s \in Synchs :
    /\ [wlock_guard(s) EXCEPT !.obj = <<s, 2>>] \in guards[t]
    /\ exchange(wlock_guard(s)) \in guards[t]
    /\ mtx[s] = [excl |-> t, shared |-> {}]

\* The guards of thread t are well formed: each has both pointers null, or
\* both pointing to one synch whose primitive t holds in the guard's mode.
WellFormedGuards(t) ==
  \A g \in guards[t] :
    g.kind = "synch_lock_guard" =>
      \/ g.mutex_ = Null /\ g.value_ = Null
      \/ /\ g.mutex_ \in Synchs /\ g.value_ = g.mutex_
         /\ IF g.const THEN t \in mtx[g.mutex_].shared
            ELSE mtx[g.mutex_].excl = t

\* The empty guard e comes into the scope of thread t in this step because
\* the guard object, until then live, is moved from: its pointers are now
\* in another guard object.
MovedFrom(t, e) ==
  \E g \in guards[t], h \in guards'[t] \ guards[t] :
    /\ g.mutex_ # Null
    /\ e = [g EXCEPT !.mutex_ = Null, !.value_ = Null]
    /\ h.obj # g.obj
    /\ h.mutex_ = g.mutex_ /\ h.value_ = g.value_

\* The empty guard e comes into the scope of thread t in this step because
\* it takes over the pointers of an empty guard of t: it is move-constructed
\* from it, or it is a live guard that is move-assigned from it and releases
\* its lock.
MovedFromEmpty(t, e) ==
  \E o \in guards[t] :
    /\ o.kind = "synch_lock_guard" /\ o.mutex_ = Null /\ o.const = e.const
    /\ \/ e = [o EXCEPT !.obj = <<o.obj[1], o.obj[2] + 1>>]
            /\ e.obj \notin {h.obj : h \in guards[t]}
       \/ \E g \in guards[t] :
            /\ g.mutex_ # Null /\ g # o
            /\ e = [g EXCEPT !.mutex_ = Null, !.value_ = Null]
            /\ ~HoldsPrim(t, g.mutex_)'

\* C30 as claimed: every guard is well formed, a guard a call returns is not
\* empty, and a guard becomes empty only by being moved from.
C30_EmptyOnlyIfMovedFrom ==
  /\ [](\A t \in Threads : WellFormedGuards(t))
  /\ [][\A t \in Threads :
         /\ \A h \in Range(ret'[t].handles) : h.mutex_ # Null /\ h.value_ # Null
         /\ \A e \in guards'[t] \ guards[t] :
              e.mutex_ = Null => MovedFrom(t, e)]_vars

\* C30 amended: every guard of every thread either has both pointers null,
\* or has both pointing to one synch whose primitive its thread holds, in
\* the mode of the guard; a guard a call returns is not empty; and a guard
\* becomes empty only by being moved from, or by being move-constructed or
\* move-assigned from a guard that is empty already.
C30_GuardStateInvariant ==
  /\ [](\A t \in Threads : WellFormedGuards(t))
  /\ [][\A t \in Threads :
         /\ \A h \in Range(ret'[t].handles) : h.mutex_ # Null /\ h.value_ # Null
         /\ \A e \in guards'[t] \ guards[t] :
              e.mutex_ = Null => MovedFrom(t, e) \/ MovedFromEmpty(t, e)]_vars

\* A thread that has made one wlock() call has two guard objects in scope,
\* the one the call returned and one move-constructed from it, and both are
\* empty with the primitive free: the second one to become empty took over
\* the pointers of the first.
C30_Witness ==
  \E t \in Threads, s \in Synchs :
    /\ ops[t] = 1 /\ pc[t] = Idle
    /\ guards[t] = {exchange(wlock_guard(s)),
                    [exchange(wlock_guard(s)) EXCEPT !.obj = <<s, 2>>]}
    /\ mtx[s] = Unlocked

\* Thread t's last call, op on synch s, returned a guard, and t holds the
\* primitive of s shared (TRUE) or exclusively (FALSE) as shared says.
Acquired(t, op, s, shared) ==
  (ret[t].ok /\ ret[t].op = op /\ ret[t].args = <<s>>) =>
    IF shared THEN t \in mtx[s].shared /\ mtx[s].excl # t
    ELSE mtx[s].excl = t /\ t \notin mtx[s].shared

\* Write acquisition in every variant holds the primitive exclusively.
WriteSelectsExclusive ==
  \A t \in Threads, s \in Shaped :
    \A op \in {"wlock", "try_wlock", "try_wlock_for", "try_wlock_until"} :
      Acquired(t, op, s, FALSE)

\* C31 as claimed: each read variant holds the primitive shared exactly when
\* the primitive type exposes the shared operation of that variant, and
\* exclusively otherwise; every write variant holds it exclusively.
C31_SelectsByExposedOperation ==
  /\ WriteSelectsExclusive
  /\ \A t \in Threads, s \in Shaped :
       LET ms == Members(MutexType(s)) IN
       /\ Acquired(t, "rlock", s, {"lock_shared", "unlock_shared"} \subseteq ms)
       /\ Acquired(t, "try_rlock", s, "try_lock_shared" \in ms)
       /\ Acquired(t, "try_rlock_for", s, "try_lock_shared_for" \in ms)
       /\ Acquired(t, "try_rlock_until", s, "try_lock_shared_until" \in ms)

\* C31 amended: rlock() holds the primitive shared exactly when the type
\* exposes lock_shared and unlock_shared; try_rlock() exactly when it exposes
\* those two and try_lock_shared; try_rlock_for() and try_rlock_until()
\* exactly when it exposes those three and both try_lock_shared_for and
\* try_lock_shared_until; otherwise the read variant holds the primitive
\* exclusively; every write variant holds it exclusively.
C31_CapabilitySelection ==
  /\ WriteSelectsExclusive
  /\ \A t \in Threads, s \in Shaped :
       LET ms == Members(MutexType(s))
           basic == {"lock_shared", "unlock_shared"}
           try == basic \cup {"try_lock_shared"}
           timed == try \cup {"try_lock_shared_for", "try_lock_shared_until"}
       IN /\ Acquired(t, "rlock", s, basic \subseteq ms)
          /\ Acquired(t, "try_rlock", s, try \subseteq ms)
          /\ Acquired(t, "try_rlock_for", s, timed \subseteq ms)
          /\ Acquired(t, "try_rlock_until", s, timed \subseteq ms)

\* try_rlock() has returned a guard on a synch whose primitive type exposes
\* try_lock_shared without lock_shared and unlock_shared, and the thread
\* holds the primitive exclusively.
C31_Witness ==
  \E t \in Threads :
    /\ ret[t].ok /\ ret[t].op = "try_rlock"
    /\ ret[t].args = <<"try_shared_only_mock">>
    /\ rlock_guard("try_shared_only_mock") \in guards[t]
    /\ mtx["try_shared_only_mock"].excl = t

\* The first k primitives of the round of the coordinator call thread t is
\* in, counted cyclically from the one the round blocked on.
RoundHeld(t) ==
  {pc[t].args[Rot(pc[t].i, d, Len(pc[t].args))] : d \in 0..(pc[t].k - 1)}

\* C33: a blocking multi-resource wlock call that cannot take a step is in
\* lock() on one primitive and holds none of the primitives of its list; in
\* lock() it never holds any; past lock() it holds exactly the primitives of
\* the current round and its next step, a try_lock() or a release, never
\* waits; and it comes to hold a second or further primitive only in a
\* try_lock() step.
C33_BackoffInvariant ==
  /\ [](\A t \in Threads :
         pc[t].op = "wlockN" =>
           /\ ~ENABLED CoordStep(t) =>
                pc[t].phase = "lock" /\ HeldByCall(t) = {}
           /\ pc[t].phase = "lock" => HeldByCall(t) = {}
           /\ pc[t].phase = "try" =>
                /\ pc[t].k >= 1 /\ HeldByCall(t) = RoundHeld(t)
                /\ ENABLED LockAllTry(t)
           /\ pc[t].phase = "backoff" =>
                /\ pc[t].k >= 1 /\ HeldByCall(t) = RoundHeld(t)
                /\ ENABLED LockAllBackoff(t))
  /\ [][\A t \in Threads :
         (pc[t].op = "wlockN"
            /\ \E r \in Range(pc[t].args) : mtx[r].excl # t /\ mtx'[r].excl = t) =>
           IF HeldByCall(t) = {}
           THEN pc[t].phase = "lock" /\ pc'[t].phase = "try"
           ELSE pc[t].phase = "try"]_vars

\* A call that held two primitives of its list has released them after a
\* failed try_lock() and is suspended in lock() on the third, which another
\* thread holds, while the two it gave up are free.
C33_Witness ==
  \E t \in Threads, u \in Threads :
    /\ t # u
    /\ pc[t].op = "wlockN" /\ pc[t].phase = "lock" /\ Len(pc[t].args) = 3
    /\ pc[t].i = 3
    /\ mtx[pc[t].args[3]].excl = u
    /\ mtx[pc[t].args[1]] = Unlocked /\ mtx[pc[t].args[2]] = Unlocked
    /\ ~ENABLED CoordStep(t)

\* The synchs whose primitive type has the exclusive timed operations and not
\* all of the shared timed ones.
ExclTimedOnly ==
  {s \in Shaped : LET ms == Members(MutexType(s)) IN
     /\ {"try_lock_for", "try_lock_until"} \subseteq ms
     /\ ~({"try_lock_shared_for", "try_lock_shared_until"} \subseteq ms)}

\* The last call of thread t was a timed read on s that returned a guard,
\* and the guard is still live.
TimedReadGuard(t, s) ==
  /\ ret[t].ok /\ ret[t].op \in {"try_rlock_for", "try_rlock_until"}
  /\ ret[t].args = <<s>>
  /\ \E g \in guards[t] : IsSynchGuard(g) /\ g.const /\ g.mutex_ = s

\* C32: on a synch whose primitive has exclusive timed operations and no
\* shared timed operations, a guard returned by try_rlock_for /
\* try_rlock_until holds the primitive exclusively: while it is live no other
\* thread holds the primitive or has a guard on the synch, and destroying it
\* leaves the primitive unlocked.
C32_TimedReadFallback ==
  /\ [](\A t \in Threads, s \in ExclTimedOnly :
         TimedReadGuard(t, s) =>
           /\ mtx[s] = [excl |-> t, shared |-> {}]
           /\ \A tg \in GuardsOn(s) : tg[1] = t)
  /\ [][\A t \in Threads, s \in ExclTimedOnly :
         (TimedReadGuard(t, s) /\ guards'[t] = {}) => mtx'[s] = Unlocked]_vars

\* The handles in thread t's scope that own primitive r.
Owners(t, r) == {g \in guards[t] : g.mutex_ = r}

\* C34: a successful wlock(args...) / try_wlock(args...) returns with each
\* primitive of its list held exclusively by the caller and owned by exactly
\* one returned handle; inside the call a primitive is taken only from the
\* unlocked state, one per step, and the returning step takes no primitive
\* the call already holds; destroying a write guard or adapter leaves its
\* primitive unlocked and lockable by any thread; a thread with no handle
\* left holds no primitive.
C34_LockAdoption ==
  /\ [](\A t \in Threads :
         /\ (ret[t].ok /\ ret[t].op \in {"wlockN", "try_wlockN"}) =>
              \A i \in DOMAIN ret[t].args :
                LET r == ret[t].args[i] IN
                  /\ mtx[r] = [excl |-> t, shared |-> {}]
                  /\ Owners(t, r) = {ret[t].handles[i]}
         /\ (pc[t] = Idle /\ guards[t] = {}) =>
              \A r \in Res : mtx[r].excl # t /\ t \notin mtx[r].shared)
  /\ [][\A t \in Threads :
         /\ pc[t].op \in {"wlockN", "try_wlockN"} =>
              LET gained == {r \in Res : mtx[r].excl # t /\ mtx'[r].excl = t} IN
                /\ Cardinality(gained) <= 1
                /\ \A r \in gained : mtx[r] = Unlocked /\ r \in Range(pc[t].args)
                /\ \A r \in Res \ gained : mtx[r].excl = t => mtx'[r] \in {mtx[r], Unlocked}
         /\ \A g \in guards[t] \ guards'[t] :
              (g.mutex_ \in Res /\ ~g.const) =>
                /\ mtx'[g.mutex_] = Unlocked
                /\ \A u \in Threads : M_lock(mtx'[g.mutex_], u).ok]_vars

\* A thread's second call, try_wlock(s1, s2, m), has returned three handles,
\* each owning its primitive, while the other thread holds nothing.
C34_Witness ==
  \E t \in Threads :
    /\ ops[t] = 2
    /\ ret[t].ok /\ ret[t].op = "try_wlockN"
    /\ ret[t].args = <<"s1", "s2", "m">>
    /\ \A r \in Res : mtx[r].excl = t /\ Cardinality(Owners(t, r)) = 1
    /\ \A u \in Threads \ {t} : guards[u] = {}

\* The primitives thread t holds, exclusively or shared.
HeldPrims(t) == {r \in AllRes : mtx[r].excl = t \/ t \in mtx[r].shared}

\* C35: a thread holds exactly the primitives of its guards when it calls a
\* copy or move construction or assignment and when the call has returned,
\* so on return it holds neither the source nor the destination, as before
\* the call; inside the call it holds nothing beyond its guards, the source
\* and the destination; and a constructed destination is left unlocked.
C35_LocksOnlyDuringCall ==
  \A t \in Threads :
    /\ pc[t] = Idle => HeldPrims(t) = HeldRes(t)
    /\ pc[t].op \in {"copy_ctor", "move_ctor", "copy_assign"} =>
         /\ HeldRes(t) \cap {pc[t].dst, pc[t].src} = {}
         /\ HeldRes(t) \subseteq HeldPrims(t)
         /\ HeldPrims(t) \subseteq HeldRes(t) \cup {pc[t].dst, pc[t].src}
    /\ pc[t].op = "move_assign" =>
         /\ HeldRes(t) \cap Range(pc[t].args) = {}
         /\ HeldRes(t) \subseteq HeldPrims(t)
         /\ HeldPrims(t) \subseteq HeldRes(t) \cup Range(pc[t].args)
    /\ ret[t].op \in CopyMoveOps =>
         /\ pc[t] = Idle
         /\ HeldPrims(t) \cap Range(ret[t].args) = {}
         /\ mtx[ret[t].args[1]] # Unconstructed

\* A move assignment between two synchs has returned with the moved value in
\* the destination, and both primitives are unlocked while the other thread
\* is about to lock the source.
C35_Witness ==
  \E t \in Threads, u \in Threads :
    /\ t # u
    /\ ret[t].op = "move_assign" /\ ret[t].args = <<"s1", "s2">>
    /\ value["s1"] # 0
    /\ mtx["s1"] = Unlocked /\ mtx["s2"] = Unlocked
    /\ pc[u].op = "wlock" /\ pc[u].r = "s2"

\* Some thread is inside a lock call on synch s.
LockCallOn(s) ==
  \E t \in Threads :
    pc[t].op \in {"rlock", "wlock", "try_rlock_for", "try_rlock_until",
                  "try_wlock_for", "try_wlock_until"} /\ pc[t].r = s

\* C36: for every synch, a call that returned a guard has acquired the
\* primitive for the caller; the caller holds the primitive for as long as
\* its guard is non-empty, a write guard exclusively; and when no non-empty
\* guard on the synch exists and no lock call on it is in progress, its
\* primitive is unlocked.
C36_GuardLockConsistency ==
  \A s \in Shaped :
    /\ \A t \in Threads :
         /\ (ret[t].ok /\ ret[t].args = <<s>>) =>
              \A i \in DOMAIN ret[t].handles :
                ret[t].handles[i] \in guards[t] /\ HoldsPrim(t, s)
         /\ \A g \in guards[t] :
              g.mutex_ = s =>
                /\ HoldsPrim(t, s)
                /\ ~g.const => mtx[s] = [excl |-> t, shared |-> {}]
    /\ (GuardsOn(s) = {} /\ ~LockCallOn(s)) => mtx[s] = Unlocked

\* Thread t is inside dst = src, holds the primitive of dst and cannot take
\* the read lock of src.
CopyAssignStuck(t, dst, src) ==
  /\ pc[t].op = "copy_assign" /\ pc[t].dst = dst /\ pc[t].src = src
  /\ pc[t].phase = "rlock_other"
  /\ mtx[dst].excl = t
  /\ ~ENABLED CopyAssignRLockOther(t)

\* C37: when one thread executes a = b and another b = a on distinct synchs,
\* no state has each thread holding the lock of its destination while it is
\* blocked on the lock of the other's.
C37_CrossedAssignNoDeadlock ==
  \A t, u \in Threads : \A a, b \in Synchs :
    (t # u /\ a # b) =>
      ~(CopyAssignStuck(t, a, b) /\ CopyAssignStuck(u, b, a))

\* -------------------------------------------------------------- enum_flags
\* bitwise_operators: the operands are cast to the underlying type, combined
\* bit by bit and cast back.
flags_or(left, right) == Bitwise(OrBit, left, right, FlagBits)
flags_and(left, right) == Bitwise(AndBit, left, right, FlagBits)
flags_not(v) == (2^FlagBits - 1) - v

\* set(old, mask): old | mask
set(old, mask) == flags_or(old, mask)

\* clear(old, mask): old & ~mask
clear(old, mask) == flags_and(old, flags_not(mask))

\* apply that sets the masked bits whatever the boolean is.
apply_set(old, mask, v) == flags_or(old, mask)

\* apply(old, mask, value): new_value is mask or Flags{}; the result is
\* (old & ~mask) | (new_value & mask).
apply(old, mask, v) ==
  LET new_value == IF v THEN mask ELSE 0 IN
    flags_or(flags_and(old, flags_not(mask)), flags_and(new_value, mask))

\* apply_inplace(output, mask, value): the value assigned to output, to
\* which the returned reference refers.
apply_inplace(output, mask, v) ==
  LET new_value == IF v THEN mask ELSE 0 IN
    flags_or(flags_and(output, flags_not(mask)), flags_and(new_value, mask))

\* What a call of one of the functions returned: its arguments and result.
Result(o, a, x) ==
  [op |-> o, args |-> a, ok |-> TRUE, handles |-> <<>>, first |-> 0,
   result |-> x]

\* A call of a pure function of enum_flags.hpp by thread t.
PureCall(t, o, a, x) ==
  /\ CanStart(t, {})
  /\ FinishWith(t, Result(o, a, x))
  /\ ops' = [ops EXCEPT ![t] = @ + 1]
  /\ UNCHANGED mtx

SetFlags(t, old, mask) ==
  PureCall(t, "set", <<old, mask>>, set(old, mask)) /\ UNCHANGED value

ClearFlags(t, old, mask) ==
  PureCall(t, "clear", <<old, mask>>, clear(old, mask)) /\ UNCHANGED value

Apply(t, old, mask, v) ==
  PureCall(t, "apply", <<old, mask, v>>, apply(old, mask, v)) /\ UNCHANGED value

\* apply_inplace(output, mask, v) on the variable x.
ApplyInplace(t, x, mask, v) ==
  /\ PureCall(t, "apply_inplace", <<value[x], mask, v>>,
              apply_inplace(value[x], mask, v))
  /\ value' = [value EXCEPT ![x] = apply_inplace(@, mask, v)]

\* The functions are called by one thread on values of its own.
Caller == "t1"

\* Every flag value as the content of the variable.
EnumInit ==
  /\ mtx = [r \in AllRes |-> IF r \in New THEN Unconstructed ELSE Unlocked]
  /\ \E w \in Words :
       value = [s \in AllSynchs \cup AtomicFlags \cup EnumVars |->
                  IF s \in EnumVars THEN w ELSE 0]
  /\ guards = [t \in Threads |-> {}]
  /\ pc = [t \in Threads |-> Idle]
  /\ ret = [t \in Threads |-> NoRet]
  /\ ops = [t \in Threads |-> 0]
  /\ acc = NoAcc

EnumNext ==
  \/ \E old \in Words, mask \in Words : SetFlags(Caller, old, mask)
  \/ \E old \in Words, mask \in Words : ClearFlags(Caller, old, mask)
  \/ \E old \in Words, mask \in Words, v \in BOOLEAN : Apply(Caller, old, mask, v)
  \/ \E x \in EnumVars, mask \in Words, v \in BOOLEAN : ApplyInplace(Caller, x, mask, v)

EnumSpec == EnumInit /\ [][EnumNext]_vars

\* Bit i of the flag value w.
BitOf(w, i) == (w \div 2^i) % 2

\* C38: apply(old, mask, v) has every bit of mask equal to v and every other
\* bit equal to the same bit of old; with v true it equals set(old, mask),
\* with v false clear(old, mask); apply_inplace leaves in its output, and
\* returns, what apply returns for the output's old value.
C38_ApplyMasked ==
  /\ [](\A t \in Threads :
         ret[t].op \in {"apply", "apply_inplace"} =>
           LET old == ret[t].args[1]
               mask == ret[t].args[2]
               v == ret[t].args[3]
               r == ret[t].result
           IN /\ r \in Words
              /\ \A i \in 0..(FlagBits - 1) :
                   IF BitOf(mask, i) = 1
                   THEN BitOf(r, i) = (IF v THEN 1 ELSE 0)
                   ELSE BitOf(r, i) = BitOf(old, i)
              /\ r = IF v THEN set(old, mask) ELSE clear(old, mask)
              /\ r = apply(old, mask, v))
  /\ [][\A t \in Threads, x \in EnumVars :
         (ops'[t] # ops[t] /\ ret'[t].op = "apply_inplace") =>
           /\ ret'[t].args[1] = value[x]
           /\ value'[x] = apply(value[x], ret'[t].args[2], ret'[t].args[3])
           /\ ret'[t].result = value'[x]]_vars

\* apply with the boolean false has cleared a bit that was set and kept
\* another one, and the mask has a bit that old did not have.
C38_Witness ==
  \E t \in Threads :
    /\ ret[t].op = "apply" /\ ret[t].args[3] = FALSE
    /\ flags_and(ret[t].args[1], ret[t].args[2]) # 0
    /\ flags_and(ret[t].args[2], flags_not(ret[t].args[1])) # 0
    /\ ret[t].result # 0
    /\ ret[t].result # ret[t].args[1]

\* -------------------------------------------------------------------- args
\* A string is the sequence of its characters.  The arguments a command line
\* is made of: the key "--p" and a key that starts with it, "--px", each alone
\* and with "=value", and bare values.
MaxArgs == 3
Dashes == <<"-", "-">>
ArgStrings ==
  {<<"-", "-", "p">>, <<"-", "-", "p", "x">>,
   <<"-", "-", "p", "=", "1">>, <<"-", "-", "p", "=", "2">>,
   <<"-", "-", "p", "x", "=", "2">>,
   <<"1">>, <<"2">>}
\* argv[0] is the program's name, the arguments follow.
ArgVectors ==
  {<<<<"x">>>> \o a : a \in UNION {[1..n -> ArgStrings] : n \in 0..MaxArgs}}
\* The name is given with or without its leading dashes.
ArgNames == {<<"p">>, <<"-", "-", "p">>}
Defaults == {0}

\* std::optional<T>
nullopt == [has |-> FALSE, v |-> 0]
Some(x) == [has |-> TRUE, v |-> x]
value_or(o, d) == IF o.has THEN o.v ELSE d

\* std::string_view::starts_with, find (0 stands for npos; positions count
\* from 1) and substr.
starts_with(s, prefix) ==
  Len(s) >= Len(prefix) /\ SubSeq(s, 1, Len(prefix)) = prefix
npos == 0
find(s, c) ==
  IF \E i \in DOMAIN s : s[i] = c
  THEN CHOOSE i \in DOMAIN s : s[i] = c /\ \A j \in 1..(i - 1) : s[j] # c
  ELSE npos
substr(s, pos) == SubSeq(s, pos, Len(s))

\* std::from_chars into an int: an optional minus sign, then the longest run
\* of digits, which must not be empty.
DigitValue == [d \in {"0", "1", "2"} |-> IF d = "0" THEN 0 ELSE IF d = "1" THEN 1 ELSE 2]
RECURSIVE from_chars(_, _, _)
from_chars(s, i, sofar) ==
  IF i > Len(s) \/ s[i] \notin DOMAIN DigitValue THEN sofar
  ELSE from_chars(s, i + 1, 10 * sofar + DigitValue[s[i]])

\* internal::parse_value<Int>
parse_value(s) ==
  LET neg == Len(s) >= 1 /\ s[1] = "-"
      first == IF neg THEN 2 ELSE 1
  IN IF first > Len(s) \/ s[first] \notin DOMAIN DigitValue THEN nullopt
     ELSE Some(IF neg THEN 0 - from_chars(s, first, 0) ELSE from_chars(s, first, 0))

\* The loop of get_arg from argument i on (argv[i] of the code is at i + 1).
RECURSIVE get_arg_loop(_, _, _)
get_arg_loop(argv, key, i) ==
  IF i > Len(argv) THEN nullopt
  ELSE LET arg == argv[i] IN
    IF starts_with(arg, key) /\ find(arg, "=") # npos
    THEN parse_value(substr(arg, find(arg, "=") + 1))
    ELSE IF arg = key /\ i + 1 <= Len(argv)
    THEN parse_value(argv[i + 1])
    ELSE get_arg_loop(argv, key, i + 1)

\* The key get_arg looks for.
arg_key(name) == IF starts_with(name, Dashes) THEN name ELSE Dashes \o name

\* get_arg<int>(argc, argv, name)
get_arg(argv, name) == get_arg_loop(argv, arg_key(name), 2)

\* get_arg<int>(argc, argv, name, default_value)
get_arg_default(argv, name, d) == value_or(get_arg(argv, name), d)

\* main(argc, argv) calls get_arg on its command line.
GetArg(t) ==
  /\ pc[t].op = "main"
  /\ FinishWith(t, Result("get_arg", <<pc[t].argv, pc[t].name>>,
                          get_arg(pc[t].argv, pc[t].name)))
  /\ ops' = [ops EXCEPT ![t] = @ + 1]
  /\ UNCHANGED <<mtx, value>>

GetArgDefault(t, d) ==
  /\ pc[t].op = "main"
  /\ FinishWith(t, Result("get_arg_default", <<pc[t].argv, pc[t].name, d>>,
                          get_arg_default(pc[t].argv, pc[t].name, d)))
  /\ ops' = [ops EXCEPT ![t] = @ + 1]
  /\ UNCHANGED <<mtx, value>>

\* The program is started with a command line and looks up a name.
ArgInit ==
  /\ mtx = [r \in AllRes |-> IF r \in New THEN Unconstructed ELSE Unlocked]
  /\ value = [s \in AllSynchs \cup AtomicFlags \cup EnumVars |-> 0]
  /\ guards = [t \in Threads |-> {}]
  /\ \E argv \in ArgVectors, name \in ArgNames :
       pc = [t \in Threads |->
               IF t = Caller THEN [op |-> "main", argv |-> argv, name |-> name]
               ELSE Idle]
  /\ ret = [t \in Threads |-> NoRet]
  /\ ops = [t \in Threads |-> 0]
  /\ acc = NoAcc

ArgNext ==
  \/ GetArg(Caller)
  \/ \E d \in Defaults : GetArgDefault(Caller, d)

ArgSpec == ArgInit /\ [][ArgNext]_vars

\* The key of an argument: what precedes its "=", or all of it.
KeyOf(arg) ==
  IF find(arg, "=") # npos THEN SubSeq(arg, 1, find(arg, "=") - 1) ELSE arg

\* The positions in argv of the arguments whose key is exactly key.
ExactAt(argv, key) == {i \in 2..Len(argv) : KeyOf(argv[i]) = key}

\* argv with the argument "--key=value" at i written as "--key", "value".
SplitAt(argv, i) ==
  SubSeq(argv, 1, i - 1)
    \o <<KeyOf(argv[i]), substr(argv[i], find(argv[i], "=") + 1)>>
    \o SubSeq(argv, i + 1, Len(argv))

\* C39: get_arg returns nullopt, or the default, when no argument has exactly
\* the key "--name"; otherwise what it returns is the parsed value of the
\* first argument with exactly that key, taken after its "=" or from the
\* next argument, and writing that argument in the other form gives the same
\* result.
C39_LookupByExactName ==
  \A t \in Threads :
    ret[t].op \in {"get_arg", "get_arg_default"} =>
      LET argv == ret[t].args[1]
          name == ret[t].args[2]
          key == IF starts_with(name, Dashes) THEN name ELSE Dashes \o name
          at == ExactAt(argv, key)
          got == IF ret[t].op = "get_arg" THEN ret[t].result
                 ELSE Some(ret[t].result)
          none == IF ret[t].op = "get_arg" THEN nullopt
                  ELSE Some(ret[t].args[3])
          orElse(o) == IF o.has \/ ret[t].op = "get_arg" THEN o ELSE none
      IN IF at = {} THEN got = none
         ELSE LET i == CHOOSE i \in at : \A j \in at : i <= j IN
           /\ find(argv[i], "=") # npos =>
                /\ got = orElse(parse_value(substr(argv[i], find(argv[i], "=") + 1)))
                /\ get_arg(SplitAt(argv, i), name) = get_arg(argv, name)
           /\ (find(argv[i], "=") = npos /\ i < Len(argv)) =>
                got = orElse(parse_value(argv[i + 1]))

====
